---- MODULE Spec2Model ----
(***************************************************************************)
(* Benchmark regression detection of perl-lsp:                             *)
(*   benchmarks/scripts/alert.py    (alert mode, threshold policy)         *)
(*   benchmarks/scripts/compare.py  (comparison mode)                      *)
(*                                                                         *)
(* Python values are modelled as follows.                                  *)
(*   str            a TLA+ string (Len, \o and SubSeq act on characters)   *)
(*   dict           a function whose DOMAIN is the set of keys present     *)
(*   Optional[int]  None is [none |-> TRUE], the number v is [int |-> v]   *)
(*   float pct      the exact rational [num, den] with den > 0             *)
(*   exception      the name of the exception in place of the result       *)
(***************************************************************************)
EXTENDS Integers, Sequences, FiniteSets, TLC

VARIABLES
    pc,                   \* position of the running function
    config,               \* the parsed threshold policy (yaml.safe_load)
    category,             \* argument / loop variable `category`
    bench_name,           \* argument / loop variable `bench_name`
    pct_change,           \* argument / local `pct_change`
    thresholds,           \* argument / local `thresholds`
    status,               \* result of classify_change
    first,                \* the first call of a sweep: [pct_change, status]
    exempted,             \* result of is_exempted
    baseline_benchmarks,  \* extract_benchmarks(baseline_data)
    current_benchmarks,   \* extract_benchmarks(current_data)
    todo_categories,      \* categories the outer loop has still to visit
    todo_names,           \* benchmark names the inner loop has still to visit
    summary,              \* alert.py: the tier lists and the unchanged counter
    category_alerts,      \* alert.py: alerts of the category being visited
    has_alerts,           \* alert.py: some category printed alerts
    counters,             \* compare.py: regressions, improvements, unchanged, missing
    stdout,               \* lines printed so far
    exit_code,            \* value the function returns to main
    raised,               \* the exception that ended the run, "" if none
    REGRESSION_THRESHOLD, \* compare.py: the module global of that name
    args,                 \* the command-line options read so far
    sys_exit,             \* the status the process exited with
    data,                 \* a parsed JSON document (json.load)
    results,              \* extract_benchmarks(data)
    now,                  \* the wall clock, in seconds
    bench,                \* the entry extract_mean_ns was last called with
    ns,                   \* what that call returned or raised
    files,                \* the file system: path -> parsed content
    baseline_file,        \* main: the path of the baseline snapshot
    current_file,         \* main: the path of the current snapshot
    stderr,               \* lines written to standard error
    header,               \* the metadata read for the header of the report
    c_data,               \* generate_comparison.py: the results of the C implementation
    rust_data,            \* generate_comparison.py: the results of the Rust implementation
    comparison,           \* generate_comparison.py: the comparison being built
    all_test_names        \* generate_comparison.py: the test names still to visit

callVars == <<config, category, bench_name, pct_change, thresholds, status, first, exempted>>
runVars == <<baseline_benchmarks, current_benchmarks, todo_categories, todo_names,
             summary, category_alerts, has_alerts, counters, stdout, exit_code, raised,
             REGRESSION_THRESHOLD, args>>
comparisonVars == <<c_data, rust_data, comparison, all_test_names>>
fileVars == <<files, baseline_file, current_file, stderr, header, comparisonVars>>
docVars == <<data, results, now, bench, ns, fileVars>>
ioVars == <<sys_exit, docVars>>
vars == <<pc, callVars, runVars, ioVars>>

----------------------------------------------------------------------------
(* Python built-ins *)

None == [none |-> TRUE]
Num(v) == [int |-> v]
Val(o) == o.int

EmptyDict == [k \in {} |-> None]

\* dict.get(key, default)
Get(d, key, default) == IF key \in DOMAIN d THEN d[key] ELSE default

\* d.update(other), returned as a new dict
Update(d, other) ==
    [k \in DOMAIN d \cup DOMAIN other |-> IF k \in DOMAIN other THEN other[k] ELSE d[k]]

\* s.startswith(prefix)
StartsWith(s, prefix) ==
    /\ Len(prefix) <= Len(s)
    /\ SubSeq(s, 1, Len(prefix)) = prefix

\* s.endswith(suffix)
EndsWith(s, suffix) ==
    /\ Len(suffix) <= Len(s)
    /\ SubSeq(s, Len(s) - Len(suffix) + 1, Len(s)) = suffix

\* s[:-2]
DropLast2(s) == IF Len(s) <= 2 THEN "" ELSE SubSeq(s, 1, Len(s) - 2)

\* The characters of the strings used, in code point order
Chars == "*-./0123456789_abcdefghijklmnopqrstuvwxyz"
Ord(c) == CHOOSE i \in 1..Len(Chars) : SubSeq(Chars, i, i) = c

\* a < b for str: the first differing character decides, a proper prefix is
\* smaller
StrLess(a, b) ==
    \E i \in 1..(Len(b)) :
        /\ i <= Len(a) + 1
        /\ SubSeq(a, 1, i - 1) = SubSeq(b, 1, i - 1)
        /\ \/ i = Len(a) + 1
           \/ Ord(SubSeq(a, i, i)) < Ord(SubSeq(b, i, i))

\* Mutant: descending order
RECURSIVE sorted_Reverse(_)
sorted_Reverse(S) ==
    IF S = {} THEN <<>>
    ELSE LET m == CHOOSE x \in S : \A y \in S \ {x} : StrLess(y, x)
         IN  <<m>> \o sorted_Reverse(S \ {m})

\* sorted(S) for a set of str
RECURSIVE sorted(_)
sorted(S) ==
    IF S = {} THEN <<>>
    ELSE LET m == CHOOSE x \in S : \A y \in S \ {x} : StrLess(x, y)
         IN  <<m>> \o sorted(S \ {m})

\* x > t and x < t for a rational x = num/den (den > 0) and an integer t
RatGT(x, t) == x.num > t * x.den
RatLT(x, t) == x.num < t * x.den
RatLE(x, y) == x.num * y.den <= y.num * x.den

----------------------------------------------------------------------------
(* alert.py: the threshold policy *)

WARN == "warn_threshold_pct"
REGRESSION == "regression_threshold_pct"
CRITICAL == "critical_threshold_pct"
IMPROVEMENT == "improvement_threshold_pct"
Fields == {WARN, REGRESSION, CRITICAL, IMPROVEMENT}

\* A comparison of a float with None raises TypeError, and so does -None.
classify_change_WarnFirst(pct, thr) ==
    LET warn_threshold == Get(thr, WARN, Num(10))
        regression_threshold == Get(thr, REGRESSION, Num(20))
        critical_threshold == Get(thr, CRITICAL, Num(50))
        improvement_threshold == Get(thr, IMPROVEMENT, Num(10))
    IN  IF warn_threshold = None THEN "TypeError"
        ELSE IF RatGT(pct, Val(warn_threshold)) THEN "WARNING"
        ELSE IF regression_threshold = None THEN "TypeError"
        ELSE IF RatGT(pct, Val(regression_threshold)) THEN "REGRESSION"
        ELSE IF critical_threshold = None THEN "TypeError"
        ELSE IF RatGT(pct, Val(critical_threshold)) THEN "CRITICAL"
        ELSE IF improvement_threshold = None THEN "TypeError"
        ELSE IF RatLT(pct, -Val(improvement_threshold)) THEN "IMPROVED"
        ELSE "OK"

classify_change_GE(pct, thr) ==
    LET warn_threshold == Get(thr, WARN, Num(10))
        regression_threshold == Get(thr, REGRESSION, Num(20))
        critical_threshold == Get(thr, CRITICAL, Num(50))
        improvement_threshold == Get(thr, IMPROVEMENT, Num(10))
    IN  IF critical_threshold = None THEN "TypeError"
        ELSE IF ~RatLT(pct, Val(critical_threshold)) THEN "CRITICAL"
        ELSE IF regression_threshold = None THEN "TypeError"
        ELSE IF ~RatLT(pct, Val(regression_threshold)) THEN "REGRESSION"
        ELSE IF warn_threshold = None THEN "TypeError"
        ELSE IF ~RatLT(pct, Val(warn_threshold)) THEN "WARNING"
        ELSE IF improvement_threshold = None THEN "TypeError"
        ELSE IF RatLT(pct, -Val(improvement_threshold)) THEN "IMPROVED"
        ELSE "OK"

classify_change(pct, thr) ==
    LET warn_threshold == Get(thr, WARN, Num(10))
        regression_threshold == Get(thr, REGRESSION, Num(20))
        critical_threshold == Get(thr, CRITICAL, Num(50))
        improvement_threshold == Get(thr, IMPROVEMENT, Num(10))
    IN  IF critical_threshold = None THEN "TypeError"
        ELSE IF RatGT(pct, Val(critical_threshold)) THEN "CRITICAL"
        ELSE IF regression_threshold = None THEN "TypeError"
        ELSE IF RatGT(pct, Val(regression_threshold)) THEN "REGRESSION"
        ELSE IF warn_threshold = None THEN "TypeError"
        ELSE IF RatGT(pct, Val(warn_threshold)) THEN "WARNING"
        ELSE IF improvement_threshold = None THEN "TypeError"
        ELSE IF RatLT(pct, -Val(improvement_threshold)) THEN "IMPROVED"
        ELSE "OK"

----------------------------------------------------------------------------
(* Calls of classify_change: one threshold dict, a first percentage and    *)
(* then every larger percentage of the grid, in increasing order.         *)

MaxPctSteps == 22

\* The percentages -55.0, -52.5, ..., 52.5, 55.0
Pcts == {[num |-> 5 * n, den |-> 2] : n \in (0 - MaxPctSteps)..MaxPctSteps}

\* Threshold values of a resolved dict: negative, out of order, and the None
\* that get_threshold_for_benchmark stores for a field no layer sets
ThresholdValues == {Num(0 - 15), Num(30), None}

ThresholdDicts ==
    UNION {[ks -> ThresholdValues] : ks \in SUBSET Fields}

\* No implementations are compared
NoComparison ==
    /\ c_data = EmptyDict
    /\ rust_data = EmptyDict
    /\ comparison = EmptyDict
    /\ all_test_names = {}

\* No file is read
NoFiles ==
    /\ files = EmptyDict
    /\ baseline_file = None
    /\ current_file = None
    /\ stderr = <<>>
    /\ header = EmptyDict
    /\ NoComparison

\* No process has exited, no document is loaded
NoIO ==
    /\ NoFiles
    /\ sys_exit = None
    /\ data = EmptyDict
    /\ results = EmptyDict
    /\ now = 0
    /\ bench = EmptyDict
    /\ ns = None

\* The variables of a run of generate_alert_terminal or compare_benchmarks,
\* when no run is modelled
NoRun ==
    /\ baseline_benchmarks = EmptyDict
    /\ current_benchmarks = EmptyDict
    /\ todo_categories = <<>>
    /\ todo_names = <<>>
    /\ summary = EmptyDict
    /\ category_alerts = <<>>
    /\ has_alerts = FALSE
    /\ counters = EmptyDict
    /\ stdout = <<>>
    /\ exit_code = None
    /\ raised = ""
    /\ REGRESSION_THRESHOLD = 20
    /\ args = EmptyDict
    /\ NoIO

NoCall == [pct_change |-> [num |-> 0, den |-> 1], status |-> "none"]

InitClassify ==
    /\ pc = "classify_change"
    /\ config = EmptyDict
    /\ category = ""
    /\ bench_name = ""
    /\ pct_change \in Pcts
    /\ thresholds \in ThresholdDicts
    /\ status = "none"
    /\ first = NoCall
    /\ exempted = FALSE
    /\ NoRun

ClassifyCall ==
    /\ pc = "classify_change"
    /\ status' = classify_change(pct_change, thresholds)
    /\ first' = IF first = NoCall
                THEN [pct_change |-> pct_change, status |-> status']
                ELSE first
    /\ pc' = "classified"
    /\ UNCHANGED <<config, category, bench_name, pct_change, thresholds, exempted>>
    /\ UNCHANGED runVars
    /\ UNCHANGED ioVars

ClassifyLarger ==
    /\ pc = "classified"
    /\ pct_change.num + 5 <= 5 * MaxPctSteps
    /\ pct_change' = [pct_change EXCEPT !.num = @ + 5]
    /\ pc' = "classify_change"
    /\ UNCHANGED <<config, category, bench_name, thresholds, status, first, exempted>>
    /\ UNCHANGED runVars
    /\ UNCHANGED ioVars

NextClassify == ClassifyCall \/ ClassifyLarger

SpecClassify == InitClassify /\ [][NextClassify]_vars

----------------------------------------------------------------------------
\* The effective value of a field: the one classify_change reads
Effective(thr, field) ==
    Get(thr, field, Num(CASE field = WARN -> 10
                          [] field = REGRESSION -> 20
                          [] field = CRITICAL -> 50
                          [] OTHER -> 10))

Numeric(thr) == \A f \in Fields : Effective(thr, f) # None

\* C1: with numeric thresholds, classify_change returns CRITICAL iff
\* pct_change > critical; REGRESSION iff not that and pct_change > regression;
\* WARNING iff neither and pct_change > warn; IMPROVED iff none of these and
\* pct_change < -improvement; OK otherwise.  Every test is strict.
C1_StrictPriority ==
    (pc = "classified" /\ Numeric(thresholds)) =>
        LET p == pct_change
            w == Val(Effective(thresholds, WARN))
            r == Val(Effective(thresholds, REGRESSION))
            c == Val(Effective(thresholds, CRITICAL))
            i == Val(Effective(thresholds, IMPROVEMENT))
            above(t) == p.num > t * p.den
        IN  /\ above(c) => status = "CRITICAL"
            /\ (~above(c) /\ above(r)) => status = "REGRESSION"
            /\ (~above(c) /\ ~above(r) /\ above(w)) => status = "WARNING"
            /\ (~above(c) /\ ~above(r) /\ ~above(w) /\ p.num < (0 - i) * p.den)
                   => status = "IMPROVED"
            /\ (~above(c) /\ ~above(r) /\ ~above(w) /\ ~(p.num < (0 - i) * p.den))
                   => status = "OK"

\* A percentage exactly at the critical threshold was classified, and was
\* not classified CRITICAL; another one strictly above it was.
C1_Witness ==
    /\ pc = "classified"
    /\ Numeric(thresholds)
    /\ first.pct_change.num = Val(Effective(thresholds, CRITICAL)) * first.pct_change.den
    /\ first.status # "CRITICAL"
    /\ first.status # "none"
    /\ status = "CRITICAL"

Rank(s) ==
    CASE s = "IMPROVED" -> 0
      [] s = "OK" -> 1
      [] s = "WARNING" -> 2
      [] s = "REGRESSION" -> 3
      [] s = "CRITICAL" -> 4

Monotone ==
    (pc = "classified" /\ Numeric(thresholds) /\ RatLE(first.pct_change, pct_change))
        => Rank(first.status) <= Rank(status)

\* C2 as stated: for any integer thresholds and p1 <= p2 the severity of p2 is
\* not lower than that of p1 (IMPROVED below OK), and IMPROVED is returned
\* only for a negative pct_change.
C2_AsStated ==
    /\ Monotone
    /\ (pc = "classified" /\ Numeric(thresholds) /\ status = "IMPROVED")
           => pct_change.num < 0

\* C2 amended: severity is monotone for any integer thresholds, and IMPROVED
\* is returned only for a negative pct_change when the improvement threshold
\* is not negative.
C2_Monotone ==
    /\ Monotone
    /\ (/\ pc = "classified"
        /\ Numeric(thresholds)
        /\ Val(Effective(thresholds, IMPROVEMENT)) >= 0
        /\ status = "IMPROVED")
           => pct_change.num < 0

\* A sweep that started IMPROVED and has reached CRITICAL, with thresholds
\* that are out of order (warn above critical).
C2_Witness ==
    /\ pc = "classified"
    /\ Numeric(thresholds)
    /\ Val(Effective(thresholds, IMPROVEMENT)) >= 0
    /\ Val(Effective(thresholds, WARN)) > Val(Effective(thresholds, CRITICAL))
    /\ first.status = "IMPROVED"
    /\ first.pct_change.num < 0
    /\ status = "CRITICAL"

----------------------------------------------------------------------------
(* alert.py: get_threshold_for_benchmark *)

\* The fields the critical-path overlay writes (lines 55-57)
OverlayFields == {WARN, REGRESSION, CRITICAL}

\* for critical in config.get('critical_path', []): if critical['name'] ==
\* full_name: ... break.  The index of the entry the loop stops at, 0 if none.
RECURSIVE FirstMatch(_, _, _)
FirstMatch(critical_path, full_name, i) ==
    IF i > Len(critical_path) THEN 0
    ELSE IF critical_path[i]["name"] = full_name THEN i
    ELSE FirstMatch(critical_path, full_name, i + 1)

\* defaults, then the category override (lines 44-48)
CategoryThresholds(cfg, cat) ==
    LET defaults == Get(cfg, "defaults", EmptyDict)
    IN  IF cat \in DOMAIN Get(cfg, "categories", EmptyDict)
        THEN Update(defaults, cfg["categories"][cat])
        ELSE defaults

\* Mutant: the overlay takes critical.get(field) with no fallback
get_threshold_for_benchmark_NoFallback(cfg, cat, name) ==
    LET thr == CategoryThresholds(cfg, cat)
        full_name == cat \o "/" \o name
        critical_path == Get(cfg, "critical_path", <<>>)
        i == FirstMatch(critical_path, full_name, 1)
    IN  IF i = 0 THEN thr
        ELSE Update(thr, [f \in OverlayFields |-> Get(critical_path[i], f, None)])

get_threshold_for_benchmark(cfg, cat, name) ==
    LET thr == CategoryThresholds(cfg, cat)
        full_name == cat \o "/" \o name
        critical_path == Get(cfg, "critical_path", <<>>)
        i == FirstMatch(critical_path, full_name, 1)
    IN  IF i = 0 THEN thr
        ELSE Update(thr, [f \in OverlayFields |->
                            Get(critical_path[i], f, Get(thr, f, None))])

----------------------------------------------------------------------------
(* alert.py: is_exempted *)

\* Mutant: the loop returns False at the first pattern that does not match
is_exempted_FirstOnly(cfg, cat, name) ==
    LET full_name == cat \o "/" \o name
        patterns == Get(cfg, "exemptions", <<>>)
    IN  /\ Len(patterns) > 0
        /\ \/ EndsWith(patterns[1], "/*") /\ StartsWith(full_name, DropLast2(patterns[1]))
           \/ patterns[1] = full_name

\* Mutant: only verbatim patterns exempt
is_exempted_ExactOnly(cfg, cat, name) ==
    \E i \in 1..Len(Get(cfg, "exemptions", <<>>)) :
        cfg["exemptions"][i] = cat \o "/" \o name

RECURSIVE ExemptedFrom(_, _, _)
ExemptedFrom(patterns, full_name, i) ==
    IF i > Len(patterns) THEN FALSE
    ELSE IF EndsWith(patterns[i], "/*") /\ StartsWith(full_name, DropLast2(patterns[i]))
         THEN TRUE
    ELSE IF patterns[i] = full_name THEN TRUE
    ELSE ExemptedFrom(patterns, full_name, i + 1)

is_exempted(cfg, cat, name) ==
    ExemptedFrom(Get(cfg, "exemptions", <<>>), cat \o "/" \o name, 1)

----------------------------------------------------------------------------
(* Policies, categories and benchmark names the calls are made with *)

Categories == {"lexer", "parser", "parser_v2"}
BenchNames == {"parse", "tokenize"}

\* Sequences over S of length at most n
SeqsUpTo(S, n) == UNION {[1..k -> S] : k \in 0..n}

\* The value a layer gives a field: defaults 11/21/51/11, category 12/22/52/12,
\* the i-th critical_path entry 2+i less than the built-in fallback
FieldBase(f) ==
    CASE f = WARN -> 10 [] f = REGRESSION -> 20 [] f = CRITICAL -> 50 [] OTHER -> 10
LayerDict(fs, offset) == [f \in fs |-> Num(FieldBase(f) + offset)]

\* The sets of fields a layer of the policy may set
FieldSets == {{}, {CRITICAL}, {IMPROVEMENT}, OverlayFields, Fields}

MaxCriticalPath == 2

CriticalNames == {"parser/tokenize", "lexer/parse"}

\* critical_path lists: the i-th entry names a benchmark and sets the fields
\* of one of FieldSets
CriticalPaths ==
    {[i \in DOMAIN shape |->
        [f \in {"name"} \cup shape[i][2] |->
            IF f = "name" THEN shape[i][1] ELSE Num(FieldBase(f) - 2 - i)]] :
     shape \in SeqsUpTo(CriticalNames \X FieldSets, MaxCriticalPath)}

\* Dicts with no key, or with `key` alone and a value of `values`
OptionalKey(key, values) == {EmptyDict} \cup {[k \in {key} |-> v] : v \in values}

ThresholdConfigs ==
    {Update(Update(d, c), cp) :
        d \in OptionalKey("defaults", {LayerDict(fs, 1) : fs \in FieldSets}),
        c \in OptionalKey("categories", {[parser |-> LayerDict(fs, 2)] : fs \in FieldSets}),
        cp \in OptionalKey("critical_path", CriticalPaths)}

InitThreshold ==
    /\ pc = "get_threshold_for_benchmark"
    /\ config \in ThresholdConfigs
    /\ category \in {"lexer", "parser"}
    /\ bench_name \in BenchNames
    /\ pct_change = NoCall.pct_change
    /\ thresholds = EmptyDict
    /\ status = "none"
    /\ first = NoCall
    /\ exempted = FALSE
    /\ NoRun

\* thresholds = get_threshold_for_benchmark(config, category, bench_name)
ThresholdCall ==
    /\ pc = "get_threshold_for_benchmark"
    /\ thresholds' = get_threshold_for_benchmark(config, category, bench_name)
    /\ pc' = "resolved"
    /\ UNCHANGED <<config, category, bench_name, pct_change, status, first, exempted>>
    /\ UNCHANGED runVars
    /\ UNCHANGED ioVars

NextThreshold == ThresholdCall

SpecThreshold == InitThreshold /\ [][NextThreshold]_vars

----------------------------------------------------------------------------
\* The critical_path entries that name category/bench_name, by index
Matching == 
    LET critical_path == Get(config, "critical_path", <<>>)
    IN  {i \in 1..Len(critical_path) :
            critical_path[i]["name"] = category \o "/" \o bench_name}

FirstEntry ==
    config["critical_path"][CHOOSE i \in Matching : \A j \in Matching : i <= j]

CategoryOverride ==
    IF category \in DOMAIN Get(config, "categories", EmptyDict)
    THEN config["categories"][category]
    ELSE EmptyDict

\* C3 as stated: each threshold resolves to the value of the matching
\* critical_path entry when that entry sets it, else to the category value
\* when the category sets it, else to the default value when defaults set it.
C3_AsStated ==
    pc = "resolved" =>
        \A f \in Fields :
            IF Matching # {} /\ f \in DOMAIN FirstEntry
            THEN Get(thresholds, f, None) = FirstEntry[f]
            ELSE IF f \in DOMAIN CategoryOverride
            THEN Get(thresholds, f, None) = CategoryOverride[f]
            ELSE IF f \in DOMAIN Get(config, "defaults", EmptyDict)
            THEN Get(thresholds, f, None) = config["defaults"][f]
            ELSE TRUE

\* C4: with a matching critical_path entry, a field the first matching entry
\* does not specify keeps the value resolved from defaults and category, no
\* resolved value becomes None, the overlaid fields take the first matching
\* entry's values, and no later matching entry gives any field its value.
C4_FrameEffect ==
    (pc = "resolved" /\ Matching # {}) =>
        LET resolved == Update(Get(config, "defaults", EmptyDict), CategoryOverride)
        IN  /\ \A f \in Fields \ DOMAIN FirstEntry :
                  Get(thresholds, f, None) = Get(resolved, f, None)
            /\ \A f \in Fields :
                  Get(resolved, f, None) # None => Get(thresholds, f, None) # None
            /\ \A f \in OverlayFields \cap DOMAIN FirstEntry :
                  Get(thresholds, f, None) = FirstEntry[f]
            /\ \A j \in Matching : \A f \in Fields \cap DOMAIN config["critical_path"][j] :
                  config["critical_path"][j] # FirstEntry
                      => Get(thresholds, f, None) # config["critical_path"][j][f]

\* Two entries name the benchmark; the first sets critical only, the second
\* sets all fields, and the resolved warn value of the category is kept.
C4_Witness ==
    /\ pc = "resolved"
    /\ Cardinality(Matching) = 2
    /\ DOMAIN FirstEntry = {"name", CRITICAL}
    /\ \E j \in Matching : WARN \in DOMAIN config["critical_path"][j]
    /\ WARN \in DOMAIN CategoryOverride
    /\ thresholds[WARN] = CategoryOverride[WARN]
    /\ thresholds[CRITICAL] = FirstEntry[CRITICAL]

----------------------------------------------------------------------------
(* Calls of is_exempted *)

MaxPatterns == 2

\* Exact names, category wildcards, the bare wildcard, and a pattern whose
\* star does not follow a slash
Patterns == {"parser/tokenize", "lexer/parse", "parser/*", "parser_v2/*", "/*", "parser/tok*"}

ExemptionConfigs == OptionalKey("exemptions", SeqsUpTo(Patterns, MaxPatterns))

InitExempt ==
    /\ pc = "is_exempted"
    /\ config \in ExemptionConfigs
    /\ category \in Categories
    /\ bench_name \in BenchNames
    /\ pct_change = NoCall.pct_change
    /\ thresholds = EmptyDict
    /\ status = "none"
    /\ first = NoCall
    /\ exempted = FALSE
    /\ NoRun

\* exempted = is_exempted(config, category, bench_name)
ExemptCall ==
    /\ pc = "is_exempted"
    /\ exempted' = is_exempted(config, category, bench_name)
    /\ pc' = "exempt_checked"
    /\ UNCHANGED <<config, category, bench_name, pct_change, thresholds, status, first>>
    /\ UNCHANGED runVars
    /\ UNCHANGED ioVars

\* The orders in which the patterns of a list can be written
Reorderings(seq) ==
    {[k \in 1..Len(seq) |-> seq[perm[k]]] :
        perm \in {f \in [1..Len(seq) -> 1..Len(seq)] :
                     \A a, b \in 1..Len(seq) : f[a] = f[b] => a = b}}

\* The same question is asked again, of the same patterns in another order
ExemptReorder ==
    /\ pc = "exempt_checked"
    /\ first = NoCall
    /\ "exemptions" \in DOMAIN config
    /\ \E patterns \in Reorderings(config["exemptions"]) :
           config' = [config EXCEPT !["exemptions"] = patterns]
    /\ first' = [pct_change |-> pct_change,
                 status |-> IF exempted THEN "True" ELSE "False"]
    /\ pc' = "is_exempted"
    /\ UNCHANGED <<category, bench_name, pct_change, thresholds, status, exempted>>
    /\ UNCHANGED runVars
    /\ UNCHANGED ioVars

NextExempt == ExemptCall \/ ExemptReorder

SpecExempt == InitExempt /\ [][NextExempt]_vars

\* A pattern covers a full name when it equals it, or ends in "/*" and the
\* full name starts with the pattern text before that "/*"
Covers(pattern, full_name) ==
    \/ pattern = full_name
    \/ /\ Len(pattern) >= 2
       /\ SubSeq(pattern, Len(pattern) - 1, Len(pattern)) = "/*"
       /\ Len(full_name) >= Len(pattern) - 2
       /\ \A k \in 1..(Len(pattern) - 2) :
              SubSeq(full_name, k, k) = SubSeq(pattern, k, k)

\* C5: is_exempted is true exactly when some pattern of the list covers
\* "category/name"; it is false for an empty list, and the same patterns in
\* another order give the same result.
C5_ExemptExactly ==
    pc = "exempt_checked" =>
        LET patterns == Get(config, "exemptions", <<>>)
            full_name == category \o "/" \o bench_name
        IN  /\ exempted <=> \E k \in 1..Len(patterns) : Covers(patterns[k], full_name)
            /\ Len(patterns) = 0 => ~exempted
            /\ first # NoCall => (exempted <=> first.status = "True")

\* The first pattern does not cover the benchmark and the second, a
\* wildcard, does: the benchmark is exempted, as it was with the two
\* patterns in the other order.
C5_Witness ==
    /\ pc = "exempt_checked"
    /\ exempted
    /\ first.status = "True"
    /\ Len(Get(config, "exemptions", <<>>)) = 2
    /\ ~Covers(config["exemptions"][1], category \o "/" \o bench_name)
    /\ config["exemptions"][2] = "parser/*"

----------------------------------------------------------------------------
(* alert.py: extract_mean_ns and the inputs of a run *)

\* The values json.load returns that are not dicts: an int and None as above,
\* a str, a list, a bool and a float (an exact rational, as pct_change is)
Str(s) == [str |-> s]
List(items) == [list |-> items]
Bool(b) == [bool |-> b]
Float(num, den) == [float |-> [num |-> num, den |-> den]]

\* An exception raised in place of a result
Raise(exception) == [raise |-> exception]

\* isinstance(v, dict): every other value is one of the tagged records
IsDict(v) == DOMAIN v \cap {"int", "none", "str", "list", "bool", "float", "raise"} = {}

\* The value of a str of decimal digits
Digits == "0123456789"
IsDigits(s) ==
    /\ Len(s) > 0
    /\ \A i \in 1..Len(s) : \E d \in 1..10 : SubSeq(s, i, i) = SubSeq(Digits, d, d)

RECURSIVE ParseDigits(_)
ParseDigits(s) ==
    IF Len(s) = 0 THEN 0
    ELSE 10 * ParseDigits(SubSeq(s, 1, Len(s) - 1)) +
         (CHOOSE d \in 0..9 : SubSeq(Digits, d + 1, d + 1) = SubSeq(s, Len(s), Len(s)))

\* int(v): an int is itself, a float is truncated towards zero, a bool is 0
\* or 1, a str of digits is parsed and any other str is a ValueError; None, a
\* list and a dict are a TypeError
Int_(v) ==
    IF "int" \in DOMAIN v THEN v
    ELSE IF "float" \in DOMAIN v
         THEN IF v.float.num >= 0 THEN Num(v.float.num \div v.float.den)
              ELSE Num(0 - ((0 - v.float.num) \div v.float.den))
    ELSE IF "bool" \in DOMAIN v THEN Num(IF v.bool THEN 1 ELSE 0)
    ELSE IF "str" \in DOMAIN v
         THEN IF IsDigits(v.str) THEN Num(ParseDigits(v.str)) ELSE Raise("ValueError")
    ELSE Raise("TypeError")

\* Mutant: the nested mean is looked at before the direct mean_ns
extract_mean_ns_NestedFirst(bench_data) ==
    IF "mean" \in DOMAIN bench_data /\ IsDict(bench_data["mean"]) /\
       DOMAIN bench_data["mean"] \cap {"nanoseconds", "point_estimate"} # {}
    THEN IF "nanoseconds" \in DOMAIN bench_data["mean"]
         THEN Int_(bench_data["mean"]["nanoseconds"])
         ELSE Int_(bench_data["mean"]["point_estimate"])
    ELSE IF "mean_ns" \in DOMAIN bench_data THEN Int_(bench_data["mean_ns"])
    ELSE None

extract_mean_ns(bench_data) ==
    IF "mean_ns" \in DOMAIN bench_data THEN Int_(bench_data["mean_ns"])
    ELSE IF "mean" \in DOMAIN bench_data /\ IsDict(bench_data["mean"])
         THEN IF "nanoseconds" \in DOMAIN bench_data["mean"]
              THEN Int_(bench_data["mean"]["nanoseconds"])
              ELSE IF "point_estimate" \in DOMAIN bench_data["mean"]
              THEN Int_(bench_data["mean"]["point_estimate"])
              ELSE None
    ELSE None

\* Entries of a ResultSet: a direct mean, a nested mean, no mean at all
MeanNs(v) == [mean_ns |-> Num(v)]
Nested(v) == [mean |-> [nanoseconds |-> Num(v)]]
NoMean == [unit |-> "ns"]

\* A key that a dict of the inputs does not have
Absent == [absent |-> TRUE]

\* The dicts that give each key of `options` one of its options, or leave it
\* out where the option taken is Absent
Pick(options) ==
    LET all == UNION {options[k] : k \in DOMAIN options}
        full == {f \in [DOMAIN options -> all] : \A k \in DOMAIN options : f[k] \in options[k]}
    IN  {[k \in {x \in DOMAIN f : f[x] # Absent} |-> f[k]] : f \in full}

\* Baseline ResultSets: lexer/parse 1000 ns; parser/parse 1000 ns or 0 ns;
\* parser/tokenize 1000 ns (nested) or without a mean; each may be absent,
\* and so may each category
Baselines ==
    Pick([lexer |-> {Absent, [parse |-> MeanNs(1000)]},
          parser |-> {Absent} \cup
                     Pick([parse |-> {Absent, MeanNs(1000), MeanNs(0)},
                           tokenize |-> {Absent, Nested(1000), NoMean}])])

\* Current ResultSets: +60 %, +30 %, +15 %, 0 %, -15 %, no mean, empty entry
Currents ==
    Pick([lexer |-> {Absent, [parse |-> MeanNs(1000)], [parse |-> MeanNs(1600)]},
          parser |-> {Absent} \cup
                     Pick([parse |-> {Absent, MeanNs(1000), MeanNs(1300), MeanNs(850),
                                      NoMean, EmptyDict},
                           tokenize |-> {Absent, Nested(1150), MeanNs(1600), NoMean}])])

FullDefaults == [f \in Fields |-> Num(FieldBase(f))]

\* Policies: defaults alone; a category override; a critical-path override;
\* defaults without critical and improvement and a critical-path entry
Policies ==
    {[defaults |-> FullDefaults],
     [defaults |-> FullDefaults,
      categories |-> [parser |-> [f \in {CRITICAL} |-> Num(25)]]],
     [defaults |-> FullDefaults,
      critical_path |-> <<[name |-> "parser/tokenize", critical_threshold_pct |-> Num(25)]>>],
     [defaults |-> [f \in {WARN, REGRESSION} |-> Num(FieldBase(f))],
      critical_path |-> <<[name |-> "parser/parse", warn_threshold_pct |-> Num(5)]>>]}

RunConfigs ==
    {Update(Update(policy, e), a) :
        policy \in Policies,
        e \in OptionalKey("exemptions", {<<"parser/*">>, <<"lexer/parse", "parser/tokenize">>}),
        a \in OptionalKey("alerting", {[fail_on_critical |-> TRUE]})}

\* not d, for d a dict or None
Falsy(d) == d = None \/ DOMAIN d = {}

\* ((curr_ns - base_ns) * 100.0) / base_ns, for base_ns > 0
PctChange(base_ns, curr_ns) == [num |-> (curr_ns - base_ns) * 100, den |-> base_ns]

\* A printed line
Line(kind, cat, name, st) == [kind |-> kind, category |-> cat, name |-> name, status |-> st]

----------------------------------------------------------------------------
(* alert.py: generate_alert_terminal, from the first iteration of the       *)
(* category loop (line 182) to the return (line 279)                        *)

AlertTiers == {"CRITICAL", "REGRESSION", "WARNING", "IMPROVED"}

TierKey(st) ==
    CASE st = "CRITICAL" -> "critical"
      [] st = "REGRESSION" -> "regressions"
      [] st = "WARNING" -> "warnings"
      [] st = "IMPROVED" -> "improvements"

\* The locals keep their values when an iteration ends at a `continue`
Skipped(outcome) ==
    [outcome |-> outcome, pct_change |-> pct_change, thresholds |-> thresholds,
     status |-> status]

\* Lines 195-209 of one iteration of the benchmark loop, for the entries
\* of the benchmark in baseline and current: how the iteration ends, and the
\* locals it assigns
Classified(cat, name, base_bench, curr_bench) ==
    LET base_ns == extract_mean_ns(base_bench)
        curr_ns == extract_mean_ns(curr_bench)
        pct == PctChange(Val(base_ns), Val(curr_ns))
        thr == get_threshold_for_benchmark(config, cat, name)
        st == classify_change(pct, thr)
    IN  IF Falsy(base_bench) \/ Falsy(curr_bench) THEN Skipped("no_bench")
        ELSE IF base_ns = None \/ curr_ns = None THEN Skipped("no_mean")
        ELSE IF Val(base_ns) = 0 THEN Skipped("ZeroDivisionError")
        ELSE [outcome |-> IF st = "TypeError" THEN "TypeError"
                          ELSE IF st \in AlertTiers THEN "alert"
                          ELSE "unchanged",
              pct_change |-> pct, thresholds |-> thr, status |-> st]

\* One iteration of the benchmark loop, lines 192-238
AlertVisit(cat, name) ==
    IF is_exempted(config, cat, name) THEN Skipped("exempted")
    ELSE Classified(cat, name, baseline_benchmarks[cat][name],
                    Get(current_benchmarks[cat], name, None))

Alert(cat, name, pct, st) ==
    [category |-> cat, name |-> name, pct_change |-> pct, status |-> st]

InitAlert ==
    /\ pc = "for_category"
    /\ config \in RunConfigs
    /\ baseline_benchmarks \in Baselines
    /\ current_benchmarks \in Currents
    /\ todo_categories = sorted(DOMAIN baseline_benchmarks \cup DOMAIN current_benchmarks)
    /\ todo_names = <<>>
    /\ category = ""
    /\ bench_name = ""
    /\ pct_change = NoCall.pct_change
    /\ thresholds = EmptyDict
    /\ status = "none"
    /\ first = NoCall
    /\ exempted = FALSE
    /\ summary = [critical |-> <<>>, regressions |-> <<>>, warnings |-> <<>>,
                  improvements |-> <<>>, unchanged |-> 0]
    /\ category_alerts = <<>>
    /\ has_alerts = FALSE
    /\ counters = EmptyDict
    /\ stdout = <<Line("header", "", "", "")>>
    /\ exit_code = None
    /\ raised = ""
    /\ REGRESSION_THRESHOLD = 20
    /\ args = EmptyDict
    /\ NoIO

\* lines 182-184: the category is not in both sets
AlertSkipCategory ==
    /\ pc = "for_category"
    /\ todo_categories # <<>>
    /\ \/ Head(todo_categories) \notin DOMAIN baseline_benchmarks
       \/ Head(todo_categories) \notin DOMAIN current_benchmarks
    /\ category' = Head(todo_categories)
    /\ todo_categories' = Tail(todo_categories)
    /\ UNCHANGED <<pc, config, bench_name, pct_change, thresholds, status, first, exempted>>
    /\ UNCHANGED <<baseline_benchmarks, current_benchmarks, todo_names, summary,
                   category_alerts, has_alerts, counters, stdout, exit_code, raised,
                   REGRESSION_THRESHOLD, args>>
    /\ UNCHANGED ioVars

\* lines 186-191: the category is in both sets
AlertEnterCategory ==
    /\ pc = "for_category"
    /\ todo_categories # <<>>
    /\ Head(todo_categories) \in DOMAIN baseline_benchmarks
    /\ Head(todo_categories) \in DOMAIN current_benchmarks
    /\ category' = Head(todo_categories)
    /\ todo_categories' = Tail(todo_categories)
    /\ todo_names' = sorted(DOMAIN baseline_benchmarks[Head(todo_categories)])
    /\ category_alerts' = <<>>
    /\ pc' = "for_bench"
    /\ UNCHANGED <<config, bench_name, pct_change, thresholds, status, first, exempted>>
    /\ UNCHANGED <<baseline_benchmarks, current_benchmarks, summary, has_alerts,
                   counters, stdout, exit_code, raised, REGRESSION_THRESHOLD, args>>
    /\ UNCHANGED ioVars

\* lines 192-205: the iteration ends at one of the three `continue`
AlertContinue(outcome) ==
    /\ pc = "for_bench"
    /\ todo_names # <<>>
    /\ AlertVisit(category, Head(todo_names)).outcome = outcome
    /\ bench_name' = Head(todo_names)
    /\ todo_names' = Tail(todo_names)
    /\ exempted' = (outcome = "exempted")
    /\ UNCHANGED <<pc, config, category, pct_change, thresholds, status, first>>
    /\ UNCHANGED <<baseline_benchmarks, current_benchmarks, todo_categories, summary,
                   category_alerts, has_alerts, counters, stdout, exit_code, raised,
                   REGRESSION_THRESHOLD, args>>
    /\ UNCHANGED ioVars

AlertExempted == AlertContinue("exempted")
AlertNoBench == AlertContinue("no_bench")
AlertNoMean == AlertContinue("no_mean")

\* line 207 divides by a zero base_ns, or line 209 compares with None: the
\* exception leaves generate_alert_terminal and main
AlertRaise(exception) ==
    /\ pc = "for_bench"
    /\ todo_names # <<>>
    /\ AlertVisit(category, Head(todo_names)).outcome = exception
    /\ bench_name' = Head(todo_names)
    /\ todo_names' = Tail(todo_names)
    /\ exempted' = FALSE
    /\ raised' = exception
    /\ pc' = "raised"
    /\ UNCHANGED <<config, category, pct_change, thresholds, status, first>>
    /\ UNCHANGED <<baseline_benchmarks, current_benchmarks, todo_categories, summary,
                   category_alerts, has_alerts, counters, stdout, exit_code,
                   REGRESSION_THRESHOLD, args>>
    /\ UNCHANGED ioVars

AlertZeroDivision == AlertRaise("ZeroDivisionError")
AlertTypeError == AlertRaise("TypeError")

\* lines 207-236: the benchmark is classified into one of the four tiers
AlertAppend ==
    /\ pc = "for_bench"
    /\ todo_names # <<>>
    /\ LET v == AlertVisit(category, Head(todo_names))
           alert == Alert(category, Head(todo_names), v.pct_change, v.status)
       IN  /\ v.outcome = "alert"
           /\ pct_change' = v.pct_change
           /\ thresholds' = v.thresholds
           /\ status' = v.status
           /\ summary' = [summary EXCEPT ![TierKey(v.status)] = Append(@, alert)]
           /\ category_alerts' = Append(category_alerts, alert)
    /\ bench_name' = Head(todo_names)
    /\ todo_names' = Tail(todo_names)
    /\ exempted' = FALSE
    /\ UNCHANGED <<pc, config, category, first>>
    /\ UNCHANGED <<baseline_benchmarks, current_benchmarks, todo_categories,
                   has_alerts, counters, stdout, exit_code, raised, REGRESSION_THRESHOLD, args>>
    /\ UNCHANGED ioVars

\* lines 207-211, 237-238: the benchmark is classified OK
AlertUnchanged ==
    /\ pc = "for_bench"
    /\ todo_names # <<>>
    /\ LET v == AlertVisit(category, Head(todo_names))
       IN  /\ v.outcome = "unchanged"
           /\ pct_change' = v.pct_change
           /\ thresholds' = v.thresholds
           /\ status' = v.status
    /\ summary' = [summary EXCEPT !["unchanged"] = @ + 1]
    /\ bench_name' = Head(todo_names)
    /\ todo_names' = Tail(todo_names)
    /\ exempted' = FALSE
    /\ UNCHANGED <<pc, config, category, first>>
    /\ UNCHANGED <<baseline_benchmarks, current_benchmarks, todo_categories,
                   category_alerts, has_alerts, counters, stdout, exit_code, raised,
                   REGRESSION_THRESHOLD, args>>
    /\ UNCHANGED ioVars

\* lines 240-247: the category's alerts are printed, in the order appended
AlertEndCategory ==
    /\ pc = "for_bench"
    /\ todo_names = <<>>
    /\ IF category_alerts # <<>>
       THEN /\ has_alerts' = TRUE
            /\ stdout' = stdout \o <<Line("category", category, "", "")>> \o
                   [i \in 1..Len(category_alerts) |->
                       Line("bench", category_alerts[i].category, category_alerts[i].name,
                            category_alerts[i].status)]
       ELSE UNCHANGED <<has_alerts, stdout>>
    /\ pc' = "for_category"
    /\ UNCHANGED callVars
    /\ UNCHANGED <<baseline_benchmarks, current_benchmarks, todo_categories, todo_names,
                   summary, category_alerts, counters, exit_code, raised,
                   REGRESSION_THRESHOLD, args>>
    /\ UNCHANGED ioVars

\* lines 249-279: the summary block, the final line and the exit code
AlertSummary ==
    /\ pc = "for_category"
    /\ todo_categories = <<>>
    /\ LET fail_on_critical ==
               Get(Get(config, "alerting", EmptyDict), "fail_on_critical", FALSE)
           final == IF Len(summary["critical"]) > 0
                    THEN IF fail_on_critical THEN "CRITICAL" ELSE "WARNING"
                    ELSE IF Len(summary["regressions"]) > 0 THEN "WARNING"
                    ELSE "PASS"
       IN  /\ stdout' = stdout \o
                  (IF has_alerts THEN <<>> ELSE <<Line("no_alerts", "", "", "")>>) \o
                  <<Line("summary", "", "", ""), Line("final", "", "", final)>>
           /\ exit_code' = IF Len(summary["critical"]) > 0 /\ fail_on_critical
                           THEN Num(1) ELSE Num(0)
    /\ pc' = "returned"
    /\ UNCHANGED callVars
    /\ UNCHANGED <<baseline_benchmarks, current_benchmarks, todo_categories, todo_names,
                   summary, category_alerts, has_alerts, counters, raised,
                   REGRESSION_THRESHOLD, args>>
    /\ UNCHANGED ioVars

\* Mutant: the exit code of the run is passed on whether or not --check is given
AlertExit_Unchecked ==
    /\ pc = "returned"
    /\ \E check \in BOOLEAN :
          /\ args' = [format |-> "terminal", check |-> check]
          /\ sys_exit' = exit_code
    /\ pc' = "exited"
    /\ UNCHANGED callVars
    /\ UNCHANGED <<baseline_benchmarks, current_benchmarks, todo_categories, todo_names,
                   summary, category_alerts, has_alerts, counters, stdout, exit_code,
                   raised, REGRESSION_THRESHOLD>>
    /\ UNCHANGED docVars

\* main, lines 461-466: --format terminal; the process exits with the exit
\* code of the run when --check is given, with 0 otherwise
AlertExit ==
    /\ pc = "returned"
    /\ \E check \in BOOLEAN :
          /\ args' = [format |-> "terminal", check |-> check]
          /\ sys_exit' = IF check THEN exit_code ELSE Num(0)
    /\ pc' = "exited"
    /\ UNCHANGED callVars
    /\ UNCHANGED <<baseline_benchmarks, current_benchmarks, todo_categories, todo_names,
                   summary, category_alerts, has_alerts, counters, stdout, exit_code,
                   raised, REGRESSION_THRESHOLD>>
    /\ UNCHANGED docVars

NextAlert ==
    \/ AlertSkipCategory
    \/ AlertEnterCategory
    \/ AlertExempted
    \/ AlertNoBench
    \/ AlertNoMean
    \/ AlertZeroDivision
    \/ AlertTypeError
    \/ AlertAppend
    \/ AlertUnchanged
    \/ AlertEndCategory
    \/ AlertSummary
    \/ AlertExit

SpecAlert == InitAlert /\ [][NextAlert]_vars

----------------------------------------------------------------------------
(* compare.py: compare_benchmarks, from the first iteration of the category *)
(* loop (line 141) to the return (line 216).  main has stored --threshold   *)
(* in the global REGRESSION_THRESHOLD (line 241).                           *)

IMPROVEMENT_THRESHOLD == 10

\* The values of --threshold: the default, and the change of one of the inputs
ThresholdOptions == {20, 30}

\* Mutant: a change equal to the threshold is a regression
CompareVisit_GE(cat, name) ==
    LET base_bench == baseline_benchmarks[cat][name]
        curr_bench == Get(Get(current_benchmarks, cat, EmptyDict), name, None)
        base_ns == extract_mean_ns(base_bench)
        curr_ns == extract_mean_ns(curr_bench)
        pct == PctChange(Val(base_ns), Val(curr_ns))
    IN  IF base_ns = None THEN Skipped("no_base_mean")
        ELSE IF curr_bench = None THEN Skipped("MISSING")
        ELSE IF curr_ns = None THEN Skipped("NO DATA")
        ELSE IF Val(base_ns) = 0 THEN Skipped("ZeroDivisionError")
        ELSE [outcome |-> "compared", pct_change |-> pct, thresholds |-> thresholds,
              status |-> IF ~RatLT(pct, REGRESSION_THRESHOLD) THEN "REGRESSION"
                         ELSE IF RatLT(pct, -IMPROVEMENT_THRESHOLD) THEN "FASTER"
                         ELSE "OK"]

\* One iteration of the benchmark loop, lines 151-188: how it ends
CompareVisit(cat, name) ==
    LET base_bench == baseline_benchmarks[cat][name]
        curr_bench == Get(Get(current_benchmarks, cat, EmptyDict), name, None)
        base_ns == extract_mean_ns(base_bench)
        curr_ns == extract_mean_ns(curr_bench)
        pct == PctChange(Val(base_ns), Val(curr_ns))
    IN  IF base_ns = None THEN Skipped("no_base_mean")
        ELSE IF curr_bench = None THEN Skipped("MISSING")
        ELSE IF curr_ns = None THEN Skipped("NO DATA")
        ELSE IF Val(base_ns) = 0 THEN Skipped("ZeroDivisionError")
        ELSE [outcome |-> "compared", pct_change |-> pct, thresholds |-> thresholds,
              status |-> IF RatGT(pct, REGRESSION_THRESHOLD) THEN "REGRESSION"
                         ELSE IF RatLT(pct, -IMPROVEMENT_THRESHOLD) THEN "FASTER"
                         ELSE "OK"]

CounterKey(st) ==
    CASE st = "REGRESSION" -> "regressions"
      [] st = "FASTER" -> "improvements"
      [] st = "OK" -> "unchanged"

InitCompare ==
    /\ pc = "for_category"
    /\ config = EmptyDict
    /\ baseline_benchmarks \in Baselines
    /\ current_benchmarks \in Currents
    /\ REGRESSION_THRESHOLD \in ThresholdOptions
    /\ todo_categories = sorted(DOMAIN baseline_benchmarks \cup DOMAIN current_benchmarks)
    /\ todo_names = <<>>
    /\ category = ""
    /\ bench_name = ""
    /\ pct_change = NoCall.pct_change
    /\ thresholds = EmptyDict
    /\ status = "none"
    /\ first = NoCall
    /\ exempted = FALSE
    /\ summary = EmptyDict
    /\ category_alerts = <<>>
    /\ has_alerts = FALSE
    /\ counters = [regressions |-> 0, improvements |-> 0, unchanged |-> 0, missing |-> 0]
    /\ stdout = <<Line("header", "", "", "")>>
    /\ exit_code = None
    /\ raised = ""
    /\ args = EmptyDict
    /\ NoIO

\* lines 141-143: the category is not in the baseline
CompareSkipCategory ==
    /\ pc = "for_category"
    /\ todo_categories # <<>>
    /\ Head(todo_categories) \notin DOMAIN baseline_benchmarks
    /\ category' = Head(todo_categories)
    /\ todo_categories' = Tail(todo_categories)
    /\ UNCHANGED <<pc, config, bench_name, pct_change, thresholds, status, first, exempted>>
    /\ UNCHANGED <<baseline_benchmarks, current_benchmarks, todo_names, summary,
                   category_alerts, has_alerts, counters, stdout, exit_code, raised,
                   REGRESSION_THRESHOLD, args>>
    /\ UNCHANGED ioVars

\* lines 145-150: the category is in the baseline; its header is printed
CompareEnterCategory ==
    /\ pc = "for_category"
    /\ todo_categories # <<>>
    /\ Head(todo_categories) \in DOMAIN baseline_benchmarks
    /\ category' = Head(todo_categories)
    /\ todo_categories' = Tail(todo_categories)
    /\ todo_names' = sorted(DOMAIN baseline_benchmarks[Head(todo_categories)])
    /\ stdout' = Append(stdout, Line("category", Head(todo_categories), "", ""))
    /\ pc' = "for_bench"
    /\ UNCHANGED <<config, bench_name, pct_change, thresholds, status, first, exempted>>
    /\ UNCHANGED <<baseline_benchmarks, current_benchmarks, summary, category_alerts,
                   has_alerts, counters, exit_code, raised, REGRESSION_THRESHOLD, args>>
    /\ UNCHANGED ioVars

\* lines 154-156: the baseline entry has no mean
CompareNoBaseMean ==
    /\ pc = "for_bench"
    /\ todo_names # <<>>
    /\ CompareVisit(category, Head(todo_names)).outcome = "no_base_mean"
    /\ bench_name' = Head(todo_names)
    /\ todo_names' = Tail(todo_names)
    /\ UNCHANGED <<pc, config, category, pct_change, thresholds, status, first, exempted>>
    /\ UNCHANGED <<baseline_benchmarks, current_benchmarks, todo_categories, summary,
                   category_alerts, has_alerts, counters, stdout, exit_code, raised,
                   REGRESSION_THRESHOLD, args>>
    /\ UNCHANGED ioVars

\* lines 158-167: the benchmark is not in current (MISSING), or its entry in
\* current has no mean (NO DATA)
CompareMissing(label) ==
    /\ pc = "for_bench"
    /\ todo_names # <<>>
    /\ CompareVisit(category, Head(todo_names)).outcome = label
    /\ counters' = [counters EXCEPT !["missing"] = @ + 1]
    /\ stdout' = Append(stdout, Line("bench", category, Head(todo_names), label))
    /\ bench_name' = Head(todo_names)
    /\ todo_names' = Tail(todo_names)
    /\ UNCHANGED <<pc, config, category, pct_change, thresholds, status, first, exempted>>
    /\ UNCHANGED <<baseline_benchmarks, current_benchmarks, todo_categories, summary,
                   category_alerts, has_alerts, exit_code, raised, REGRESSION_THRESHOLD,
                   args>>
    /\ UNCHANGED ioVars

CompareAbsent == CompareMissing("MISSING")
CompareNoData == CompareMissing("NO DATA")

\* line 170 divides by a zero base_ns: the exception leaves
\* compare_benchmarks and main
CompareZeroDivision ==
    /\ pc = "for_bench"
    /\ todo_names # <<>>
    /\ CompareVisit(category, Head(todo_names)).outcome = "ZeroDivisionError"
    /\ bench_name' = Head(todo_names)
    /\ todo_names' = Tail(todo_names)
    /\ raised' = "ZeroDivisionError"
    /\ pc' = "raised"
    /\ UNCHANGED <<config, category, pct_change, thresholds, status, first, exempted>>
    /\ UNCHANGED <<baseline_benchmarks, current_benchmarks, todo_categories, summary,
                   category_alerts, has_alerts, counters, stdout, exit_code,
                   REGRESSION_THRESHOLD, args>>
    /\ UNCHANGED ioVars

\* lines 170-194: the benchmark is compared, counted and printed
CompareClassify ==
    /\ pc = "for_bench"
    /\ todo_names # <<>>
    /\ LET v == CompareVisit(category, Head(todo_names))
       IN  /\ v.outcome = "compared"
           /\ pct_change' = v.pct_change
           /\ status' = v.status
           /\ counters' = [counters EXCEPT ![CounterKey(v.status)] = @ + 1]
           /\ stdout' = Append(stdout, Line("bench", category, Head(todo_names), v.status))
    /\ bench_name' = Head(todo_names)
    /\ todo_names' = Tail(todo_names)
    /\ UNCHANGED <<pc, config, category, thresholds, first, exempted>>
    /\ UNCHANGED <<baseline_benchmarks, current_benchmarks, todo_categories, summary,
                   category_alerts, has_alerts, exit_code, raised, REGRESSION_THRESHOLD,
                   args>>
    /\ UNCHANGED ioVars

\* line 196: the blank line that ends a category
CompareEndCategory ==
    /\ pc = "for_bench"
    /\ todo_names = <<>>
    /\ stdout' = Append(stdout, Line("blank", "", "", ""))
    /\ pc' = "for_category"
    /\ UNCHANGED callVars
    /\ UNCHANGED <<baseline_benchmarks, current_benchmarks, todo_categories, todo_names,
                   summary, category_alerts, has_alerts, counters, exit_code, raised,
                   REGRESSION_THRESHOLD, args>>
    /\ UNCHANGED ioVars

\* lines 198-216: the summary block, the final line and the value returned,
\* which reads the parameter fail_on_regression
CompareSummary ==
    /\ pc = "for_category"
    /\ todo_categories = <<>>
    /\ \E fail_on_regression \in BOOLEAN :
          /\ args' = [fail_on_regression |-> fail_on_regression]
          /\ exit_code' = IF counters["regressions"] > 0 /\ fail_on_regression
                          THEN Num(1) ELSE Num(0)
    /\ stdout' = stdout \o
           <<Line("summary", "", "", ""),
             Line("final", "", "",
                  IF counters["regressions"] > 0 THEN "REGRESSION DETECTED" ELSE "PASS")>>
    /\ pc' = "returned"
    /\ UNCHANGED callVars
    /\ UNCHANGED <<baseline_benchmarks, current_benchmarks, todo_categories, todo_names,
                   summary, category_alerts, has_alerts, counters, raised,
                   REGRESSION_THRESHOLD>>
    /\ UNCHANGED ioVars

\* main, line 263: sys.exit(compare_benchmarks(...))
CompareExit ==
    /\ pc = "returned"
    /\ sys_exit' = exit_code
    /\ pc' = "exited"
    /\ UNCHANGED callVars
    /\ UNCHANGED runVars
    /\ UNCHANGED docVars

NextCompare ==
    \/ CompareSkipCategory
    \/ CompareEnterCategory
    \/ CompareNoBaseMean
    \/ CompareAbsent
    \/ CompareNoData
    \/ CompareZeroDivision
    \/ CompareClassify
    \/ CompareEndCategory
    \/ CompareSummary
    \/ CompareExit

SpecCompare == InitCompare /\ [][NextCompare]_vars

----------------------------------------------------------------------------
(* Properties of a run of generate_alert_terminal *)

Range(seq) == {seq[i] : i \in 1..Len(seq)}

\* The benchmarks of a ResultSet, as <<category, name>>
Pairs(rs) ==
    UNION {{<<c, n>> : n \in DOMAIN rs[c]} : c \in DOMAIN rs}

\* The loops are past the benchmark p
Done(p) ==
    /\ p[1] \notin Range(todo_categories)
    /\ ~(pc \in {"for_bench", "raised"} /\ p[1] = category /\ p[2] \in Range(todo_names))

\* Some pattern of the exemption list covers the benchmark
ExemptByPattern(p) ==
    \E k \in 1..Len(Get(config, "exemptions", <<>>)) :
        Covers(config["exemptions"][k], p[1] \o "/" \o p[2])

\* The baseline without its exempted benchmarks
WithoutExempt(rs) ==
    [c \in DOMAIN rs |->
        [n \in {x \in DOMAIN rs[c] : ~ExemptByPattern(<<c, x>>)} |-> rs[c][n]]]

\* The benchmarks in the tier lists, the pending alerts and the printed lines
Listed ==
    {<<a.category, a.name>> :
        a \in UNION {Range(summary[TierKey(t)]) : t \in AlertTiers} \cup Range(category_alerts)}
    \cup {<<l.category, l.name>> : l \in {x \in Range(stdout) : x.kind = "bench"}}

\* C6: an exempted benchmark is in no tier list, no pending alert and no
\* printed line, and the five counters are at every point of the run those of
\* the benchmarks visited so far of the baseline without its exempted
\* benchmarks.
C6_ExemptionShortCircuit ==
    pc \in {"for_category", "for_bench", "returned", "raised"} =>
        LET reduced == WithoutExempt(baseline_benchmarks)
            visited == {p \in Pairs(reduced) : p[1] \in DOMAIN current_benchmarks /\ Done(p)}
            result(p) == Classified(p[1], p[2], reduced[p[1]][p[2]],
                                    Get(current_benchmarks[p[1]], p[2], None))
            count(outcome, st) ==
                Cardinality({p \in visited :
                    result(p).outcome = outcome /\ result(p).status = st})
        IN  /\ \A p \in Listed : ~ExemptByPattern(p)
            /\ \A t \in AlertTiers : Len(summary[TierKey(t)]) = count("alert", t)
            /\ summary["unchanged"] = count("unchanged", "OK")

\* The run returned, an exempted benchmark is 60 % slower than its baseline,
\* above its critical threshold, and no benchmark is counted critical.
C6_Witness ==
    /\ pc = "returned"
    /\ \E p \in Pairs(baseline_benchmarks) :
          /\ ExemptByPattern(p)
          /\ p[1] \in DOMAIN current_benchmarks
          /\ LET result == Classified(p[1], p[2], baseline_benchmarks[p[1]][p[2]],
                                       Get(current_benchmarks[p[1]], p[2], None))
             IN  result.outcome = "alert" /\ result.status = "CRITICAL"
          /\ Done(p)
    /\ summary["critical"] = <<>>
    /\ summary["unchanged"] > 0


\* The number of times the benchmark p occurs in a list of alerts or lines
Occurrences(seq, p) ==
    Cardinality({i \in 1..Len(seq) : seq[i].category = p[1] /\ seq[i].name = p[2]})

\* The benchmark lines printed so far
BenchLines == SelectSeq(stdout, LAMBDA l : l.kind = "bench")

\* The verdict list: the alerts printed, then those of the category in hand
Verdicts == BenchLines \o (IF pc = "for_bench" THEN category_alerts ELSE <<>>)

\* <<category, name>> of a comes before that of b
Before(a, b) ==
    \/ StrLess(a.category, b.category)
    \/ a.category = b.category /\ StrLess(a.name, b.name)

\* C10: a benchmark classified OK is counted unchanged and is in no tier
\* list and not in the verdict list; one classified CRITICAL, REGRESSION,
\* WARNING or IMPROVED is once in the tier list of its status, in no other
\* tier list, and once in the verdict list; the verdicts are in ascending
\* category order and, within a category, ascending name order.
C10_VerdictList ==
    pc \in {"for_category", "for_bench", "returned"} =>
        LET visited == {p \in Pairs(baseline_benchmarks) :
                           p[1] \in DOMAIN current_benchmarks /\ Done(p)}
            result(p) == AlertVisit(p[1], p[2])
        IN  /\ \A p \in visited : result(p).outcome = "unchanged" =>
                  /\ Occurrences(Verdicts, p) = 0
                  /\ \A t \in AlertTiers : Occurrences(summary[TierKey(t)], p) = 0
            /\ summary["unchanged"] =
                  Cardinality({p \in visited : result(p).outcome = "unchanged"})
            /\ \A p \in visited : result(p).outcome = "alert" =>
                  /\ Occurrences(Verdicts, p) = 1
                  /\ \A t \in AlertTiers :
                        Occurrences(summary[TierKey(t)], p) =
                            IF t = result(p).status THEN 1 ELSE 0
                  /\ \A i \in 1..Len(Verdicts) :
                        (Verdicts[i].category = p[1] /\ Verdicts[i].name = p[2])
                            => Verdicts[i].status = result(p).status
            /\ \A i, j \in 1..Len(Verdicts) : i < j => Before(Verdicts[i], Verdicts[j])

\* The run returned with parser/parse counted unchanged and two verdicts
\* printed, that of lexer/parse before that of parser/tokenize.
C10_Witness ==
    /\ pc = "returned"
    /\ summary["unchanged"] = 1
    /\ Len(BenchLines) = 2
    /\ BenchLines[1].category = "lexer"
    /\ BenchLines[2].category = "parser"
    /\ BenchLines[2].name = "tokenize"
    /\ BenchLines[1].status # BenchLines[2].status

\* The missing counter of the run, 0 when the run keeps none
MissingCounter ==
    IF "missing" \in DOMAIN counters THEN counters["missing"]
    ELSE IF "missing" \in DOMAIN summary THEN summary["missing"]
    ELSE 0

\* C8 as stated: when the run returns, every non-exempt baseline benchmark
\* of a compared category that is absent from current, or whose current mean
\* cannot be extracted, has a MISSING line, and the missing counter is the
\* number of these benchmarks.
C8_AsStated ==
    pc = "returned" =>
        LET missing == {p \in Pairs(baseline_benchmarks) :
                           /\ p[1] \in DOMAIN current_benchmarks
                           /\ ~ExemptByPattern(p)
                           /\ \/ p[2] \notin DOMAIN current_benchmarks[p[1]]
                              \/ extract_mean_ns(current_benchmarks[p[1]][p[2]]) = None}
        IN  /\ MissingCounter = Cardinality(missing)
            /\ \A p \in missing :
                  \E i \in 1..Len(stdout) :
                      /\ stdout[i].kind = "bench"
                      /\ stdout[i].category = p[1] /\ stdout[i].name = p[2]
                      /\ stdout[i].status = "MISSING"

\* C9 as stated: a baseline mean of 0 ns never ends the run with a division
\* by zero.
C9_AsStated == raised # "ZeroDivisionError"


\* C7 as stated: every benchmark line printed, and every counter increment,
\* belongs to a category present in both the baseline and the current set
\* and to a benchmark name of the baseline.
C7_AsStated ==
    LET shared == {p \in Pairs(baseline_benchmarks) : p[1] \in DOMAIN current_benchmarks}
        counted == IF counters = EmptyDict THEN 0
                   ELSE counters["regressions"] + counters["improvements"] +
                        counters["unchanged"] + counters["missing"]
    IN  /\ \A i \in 1..Len(stdout) :
              stdout[i].kind = "bench" => <<stdout[i].category, stdout[i].name>> \in shared
        /\ counted <= Cardinality({p \in shared : Done(p)})


----------------------------------------------------------------------------
(* The exit status of the processes *)

MeanIn(rs, p) ==
    IF p[1] \in DOMAIN rs /\ p[2] \in DOMAIN rs[p[1]]
    THEN extract_mean_ns(rs[p[1]][p[2]])
    ELSE None

\* p has a baseline mean and a current mean, and is slower by strictly more
\* than the regression threshold
Regressed(p) ==
    LET base_ns == MeanIn(baseline_benchmarks, p)
        curr_ns == MeanIn(current_benchmarks, p)
    IN  /\ base_ns # None
        /\ curr_ns # None
        /\ Val(base_ns) > 0
        /\ (Val(curr_ns) - Val(base_ns)) * 100 > REGRESSION_THRESHOLD * Val(base_ns)

\* p is a measurement of the baseline with no measurement in current
Unmeasured(p) ==
    /\ MeanIn(baseline_benchmarks, p) # None
    /\ MeanIn(current_benchmarks, p) = None

\* C12: compare_benchmarks returns 1 exactly when --fail-on-regression is set
\* and some benchmark is slower than its baseline by strictly more than the
\* active regression threshold, and 0 otherwise, and the process exits with
\* that value; at every point of the run the missing counter is the number
\* of the baseline measurements visited so far that have no measurement in
\* current, one for each, whatever the value returned.
C12_ReturnsOneWhenGated ==
    /\ pc \in {"returned", "exited"} =>
          exit_code = IF /\ args["fail_on_regression"]
                         /\ \E p \in Pairs(baseline_benchmarks) : Regressed(p)
                      THEN Num(1) ELSE Num(0)
    /\ pc = "exited" => sys_exit = exit_code
    /\ counters["missing"] =
          Cardinality({p \in Pairs(baseline_benchmarks) : Done(p) /\ Unmeasured(p)})

\* The process exited with 0 under --fail-on-regression and a threshold of
\* 30: one benchmark is missing from current and one is slower by exactly
\* 30 %.
C12_Witness ==
    /\ pc = "exited"
    /\ sys_exit = Num(0)
    /\ args["fail_on_regression"]
    /\ REGRESSION_THRESHOLD = 30
    /\ counters["missing"] = 1
    /\ \E i \in 1..Len(stdout) : stdout[i].status = "MISSING"
    /\ \E p \in Pairs(baseline_benchmarks) :
          /\ MeanIn(baseline_benchmarks, p) = Num(1000)
          /\ MeanIn(current_benchmarks, p) = Num(1300)


----------------------------------------------------------------------------
(* compare.py: extract_benchmarks (lines 67-101; alert.py and               *)
(* format-results.py hold the same function) and extract_mean_ns, applied   *)
(* to the documents json.load returns                                       *)

\* sub in s, for two str
Contains(s, sub) ==
    \E i \in 1..(Len(s) - Len(sub) + 1) : SubSeq(s, i, i + Len(sub) - 1) = sub

\* `key in v` raises TypeError: v is not iterable
NotIterable(v) == DOMAIN v \cap {"int", "none", "bool", "float"} # {}

\* key in v, for a dict, a list or a str v
In(key, v) ==
    IF "list" \in DOMAIN v THEN \E i \in 1..Len(v.list) : v.list[i] = Str(key)
    ELSE IF "str" \in DOMAIN v THEN Contains(v.str, key)
    ELSE key \in DOMAIN v

\* The branch extract_benchmarks takes (lines 72, 83), or the exception
Branch(d) ==
    IF NotIterable(d) THEN "TypeError"
    ELSE IF In("results", d) THEN "results"
    ELSE IF In("benchmarks", d) THEN "benchmarks"
    ELSE "neither"

\* d[key].items(), where `key in d` holds: a list and a str are not indexed
\* by a str, and only a dict has items
Items(d, key) ==
    IF ~IsDict(d) THEN Raise("TypeError")
    ELSE IF ~IsDict(d[key]) THEN Raise("AttributeError")
    ELSE d[key]

\* isinstance(v, dict) and ("mean" in v or "mean_ns" in v)
LooksMeasured(v) == IsDict(v) /\ ("mean" \in DOMAIN v \/ "mean_ns" \in DOMAIN v)

\* lines 89-90: some child of the value looks like a measurement
IsCategory(value) == \E name \in DOMAIN value : LooksMeasured(value[name])

\* The orders in which the keys of an object can stand in a document
Orders(keys) ==
    {q \in [1..Cardinality(keys) -> keys] : \A k \in keys : \E i \in DOMAIN q : q[i] = k}

\* d[key] = value, returned as a new dict
SetItem(d, key, value) == Update(d, [k \in {key} |-> value])

\* Entries of a document: the two of MeanNs and Nested, a null, a word, a str
\* of digits, a mean that is a number, a float point estimate, a direct and
\* a nested mean together, both nested fields, a nested null, an empty mean
Entries ==
    {MeanNs(1000), Nested(1000), [mean_ns |-> None], [mean_ns |-> Str("fast")],
     [mean_ns |-> Str("1000")], [mean |-> Num(5)],
     [mean |-> [point_estimate |-> Float(3001, 2)]],
     [mean_ns |-> Num(7), mean |-> [nanoseconds |-> Num(9)]],
     [mean |-> [nanoseconds |-> Num(9), point_estimate |-> Num(11)]],
     [mean |-> [nanoseconds |-> None]], [mean |-> EmptyDict]}

\* The children of a category: a benchmark, a "_" key, a str
Children(entries) ==
    Pick([parse |-> {Absent} \cup entries,
          _warmup |-> {Absent, MeanNs(5)},
          unit |-> {Absent, Str("ns")}])

\* Documents with a top-level "results" (Variant A)
ResultsDocs ==
    {[results |-> r] :
        r \in {None, List(<<>>)} \cup
              Pick([lexer |-> {Absent, Num(3)} \cup Children(Entries),
                    parser |-> {Absent, [parse |-> MeanNs(1000)]}])}

\* Documents with a top-level "benchmarks" (Variant B): a category, a flat
\* benchmark or another value, and a category named "other"
BenchmarksDocs ==
    {[benchmarks |-> b] :
        b \in {None, Str("none")} \cup
              Pick([parser |-> {Absent} \cup
                               Children({Nested(1000), [mean_ns |-> None]}),
                    startup |-> {Absent, MeanNs(5), [iters |-> Num(3)], Num(1)},
                    other |-> {Absent, [x |-> Nested(1000)]}])}

\* Every other document: no known key, both keys, and no object at all
OtherDocs ==
    {EmptyDict, [version |-> Str("1")],
     [results |-> [lexer |-> [parse |-> MeanNs(1000)]],
      benchmarks |-> [parser |-> [parse |-> Nested(1000)]]],
     None, Num(1), Str("results"), Str("x"), List(<<Str("benchmarks")>>), List(<<>>)}

Documents == ResultsDocs \cup BenchmarksDocs \cup OtherDocs

InitExtract ==
    /\ pc = "extract_benchmarks"
    /\ data \in Documents
    /\ results = EmptyDict
    /\ now = 0
    /\ bench = EmptyDict
    /\ ns = None
    /\ NoFiles
    /\ sys_exit = None
    /\ config = EmptyDict
    /\ category = ""
    /\ bench_name = ""
    /\ pct_change = NoCall.pct_change
    /\ thresholds = EmptyDict
    /\ status = "none"
    /\ first = NoCall
    /\ exempted = FALSE
    /\ baseline_benchmarks = EmptyDict
    /\ current_benchmarks = EmptyDict
    /\ todo_categories = <<>>
    /\ todo_names = <<>>
    /\ summary = EmptyDict
    /\ category_alerts = <<>>
    /\ has_alerts = FALSE
    /\ counters = EmptyDict
    /\ stdout = <<>>
    /\ exit_code = None
    /\ raised = ""
    /\ REGRESSION_THRESHOLD = 20
    /\ args = EmptyDict

\* What a step of extract_benchmarks leaves alone
ExtractFrame ==
    /\ UNCHANGED <<config, category, bench_name, pct_change, thresholds, status, first,
                   exempted>>
    /\ UNCHANGED <<baseline_benchmarks, current_benchmarks, todo_names, summary,
                   category_alerts, has_alerts, counters, stdout, exit_code,
                   REGRESSION_THRESHOLD, args>>
    /\ UNCHANGED <<sys_exit, data, now, bench, ns>>
    /\ UNCHANGED fileVars

\* lines 72-73 and 83-86 raise: `in` on a number, a bool or None, a str key
\* on a list or a str, .items() on a value that is not a dict
ExtractRaise ==
    /\ pc = "extract_benchmarks"
    /\ \/ /\ Branch(data) = "TypeError"
          /\ raised' = "TypeError"
       \/ /\ Branch(data) \in {"results", "benchmarks"}
          /\ ~IsDict(Items(data, Branch(data)))
          /\ raised' = Items(data, Branch(data)).raise
    /\ pc' = "raised"
    /\ UNCHANGED <<todo_categories, results>>
    /\ ExtractFrame

\* lines 72-73: the document has "results"; its items are visited in the
\* order of the document
ExtractResults ==
    /\ pc = "extract_benchmarks"
    /\ Branch(data) = "results"
    /\ IsDict(Items(data, "results"))
    /\ todo_categories' \in Orders(DOMAIN data["results"])
    /\ pc' = "for_results"
    /\ UNCHANGED <<raised, results>>
    /\ ExtractFrame

\* lines 83-86: the document has "benchmarks" and no "results"
ExtractBenchmarks ==
    /\ pc = "extract_benchmarks"
    /\ Branch(data) = "benchmarks"
    /\ IsDict(Items(data, "benchmarks"))
    /\ todo_categories' \in Orders(DOMAIN data["benchmarks"])
    /\ pc' = "for_benchmarks"
    /\ UNCHANGED <<raised, results>>
    /\ ExtractFrame

\* line 101: the document has neither key
ExtractNeither ==
    /\ pc = "extract_benchmarks"
    /\ Branch(data) = "neither"
    /\ pc' = "extracted"
    /\ UNCHANGED <<raised, results, todo_categories>>
    /\ ExtractFrame

\* lines 73-80: a category of "results" that is a dict; its names that do not
\* start with "_" and whose values are dicts are kept
ExtractCategory ==
    /\ pc = "for_results"
    /\ todo_categories # <<>>
    /\ LET benchmarks == data["results"][Head(todo_categories)]
       IN  /\ IsDict(benchmarks)
           /\ results' = SetItem(results, Head(todo_categories),
                             [name \in {x \in DOMAIN benchmarks :
                                           ~StartsWith(x, "_") /\ IsDict(benchmarks[x])}
                                 |-> benchmarks[name]])
    /\ todo_categories' = Tail(todo_categories)
    /\ UNCHANGED <<pc, raised>>
    /\ ExtractFrame

\* line 74: a category of "results" that is not a dict
ExtractNotCategory ==
    /\ pc = "for_results"
    /\ todo_categories # <<>>
    /\ ~IsDict(data["results"][Head(todo_categories)])
    /\ todo_categories' = Tail(todo_categories)
    /\ UNCHANGED <<pc, raised, results>>
    /\ ExtractFrame

\* lines 86-94: a child of "benchmarks" with a child that looks like a
\* measurement is a category of those children
ExtractGenuine ==
    /\ pc = "for_benchmarks"
    /\ todo_categories # <<>>
    /\ LET value == data["benchmarks"][Head(todo_categories)]
       IN  /\ IsDict(value)
           /\ IsCategory(value)
           /\ results' = SetItem(results, Head(todo_categories),
                             [name \in {x \in DOMAIN value : LooksMeasured(value[x])}
                                 |-> value[name]])
    /\ todo_categories' = Tail(todo_categories)
    /\ UNCHANGED <<pc, raised>>
    /\ ExtractFrame

\* lines 96-99: a child of "benchmarks" that itself looks like a measurement
\* is put in results["other"], which is created when it is not there
ExtractFlat ==
    /\ pc = "for_benchmarks"
    /\ todo_categories # <<>>
    /\ LET value == data["benchmarks"][Head(todo_categories)]
       IN  /\ IsDict(value)
           /\ ~IsCategory(value)
           /\ LooksMeasured(value)
           /\ results' = SetItem(results, "other",
                             SetItem(Get(results, "other", EmptyDict),
                                     Head(todo_categories), value))
    /\ todo_categories' = Tail(todo_categories)
    /\ UNCHANGED <<pc, raised>>
    /\ ExtractFrame

\* lines 87, 96: any other child of "benchmarks"
ExtractIgnored ==
    /\ pc = "for_benchmarks"
    /\ todo_categories # <<>>
    /\ LET value == data["benchmarks"][Head(todo_categories)]
       IN  IF IsDict(value) THEN ~IsCategory(value) /\ ~LooksMeasured(value) ELSE TRUE
    /\ todo_categories' = Tail(todo_categories)
    /\ UNCHANGED <<pc, raised, results>>
    /\ ExtractFrame

\* line 101: return results
ExtractReturn ==
    /\ pc \in {"for_results", "for_benchmarks"}
    /\ todo_categories = <<>>
    /\ pc' = "extracted"
    /\ UNCHANGED <<raised, results, todo_categories>>
    /\ ExtractFrame

\* A caller takes an entry of the ResultSet and calls extract_mean_ns
\* (compare.py line 154, alert.py line 201, format-results.py line 204)
MeanCall ==
    /\ pc = "extracted"
    /\ \E p \in Pairs(results) :
          /\ category' = p[1]
          /\ bench_name' = p[2]
          /\ bench' = results[p[1]][p[2]]
          /\ ns' = extract_mean_ns(results[p[1]][p[2]])
          /\ IF "raise" \in DOMAIN extract_mean_ns(results[p[1]][p[2]])
             THEN /\ raised' = extract_mean_ns(results[p[1]][p[2]]).raise
                  /\ pc' = "raised"
             ELSE UNCHANGED <<raised, pc>>
    /\ UNCHANGED <<config, pct_change, thresholds, status, first, exempted>>
    /\ UNCHANGED <<baseline_benchmarks, current_benchmarks, todo_categories, todo_names,
                   summary, category_alerts, has_alerts, counters, stdout, exit_code,
                   REGRESSION_THRESHOLD, args>>
    /\ UNCHANGED <<sys_exit, data, results, now>>
    /\ UNCHANGED fileVars

NextExtract ==
    \/ ExtractRaise
    \/ ExtractResults
    \/ ExtractBenchmarks
    \/ ExtractNeither
    \/ ExtractCategory
    \/ ExtractNotCategory
    \/ ExtractGenuine
    \/ ExtractFlat
    \/ ExtractIgnored
    \/ ExtractReturn
    \/ MeanCall

SpecExtract == InitExtract /\ [][NextExtract]_vars

\* C13 as stated: neither extract_benchmarks nor extract_mean_ns ever raises,
\* whatever the document.
C13_AsStated == raised = ""


\* A JSON number, and its integer part
IsNumber(v) == DOMAIN v \cap {"int", "float"} # {}
WholePart(v) ==
    IF "int" \in DOMAIN v THEN v
    ELSE Num(CHOOSE n \in 0..v.float.num :
                 n * v.float.den <= v.float.num /\ v.float.num < (n + 1) * v.float.den)

\* C14: extract_mean_ns gives the direct mean_ns when the entry has one,
\* whatever its nested mean holds; otherwise mean.nanoseconds when the entry
\* has one; otherwise mean.point_estimate when the entry has one (a number
\* is given as its integer part); otherwise None, without an exception.
C14_MeanPrecedence ==
    bench_name # "" =>
        LET nested == IF "mean" \in DOMAIN bench /\ IsDict(bench["mean"])
                      THEN bench["mean"] ELSE EmptyDict
            chosen == IF "mean_ns" \in DOMAIN bench THEN bench["mean_ns"]
                      ELSE IF "nanoseconds" \in DOMAIN nested THEN nested["nanoseconds"]
                      ELSE IF "point_estimate" \in DOMAIN nested
                           THEN nested["point_estimate"]
                      ELSE None
        IN  /\ IsNumber(chosen) => ns = WholePart(chosen)
            /\ /\ "mean_ns" \notin DOMAIN bench
               /\ DOMAIN nested \cap {"nanoseconds", "point_estimate"} = {}
               => ns = None /\ raised = ""

\* extract_mean_ns gave the direct mean_ns of an entry that also has a
\* nested mean with another value
C14_Witness ==
    /\ bench_name # ""
    /\ bench = [mean_ns |-> Num(7), mean |-> [nanoseconds |-> Num(9)]]
    /\ ns = Num(7)

\* C15 as stated: of a document with "benchmarks", every child with a child
\* that looks like a measurement is a category of the ResultSet, under its
\* own name, of exactly those children; every other child that looks like a
\* measurement is in the category "other" under its own key; any other
\* child is in neither place.
C15_AsStated ==
    pc = "extracted" /\ Branch(data) = "benchmarks" =>
        \A key \in DOMAIN data["benchmarks"] :
            LET value == data["benchmarks"][key]
                other == Get(results, "other", EmptyDict)
            IN  IF IsDict(value) /\ IsCategory(value)
                THEN /\ key \in DOMAIN results
                     /\ results[key] =
                            [name \in {x \in DOMAIN value : LooksMeasured(value[x])}
                                |-> value[name]]
                ELSE IF LooksMeasured(value)
                THEN key \in DOMAIN other /\ other[key] = value
                ELSE key \notin DOMAIN other /\ (key \in DOMAIN results => key = "other")

\* C16 as stated: no benchmark of the extracted ResultSet has a name that
\* starts with "_".
C16_AsStated ==
    pc = "extracted" => \A p \in Pairs(results) : ~StartsWith(p[2], "_")


----------------------------------------------------------------------------
(* alert.py: a run of generate_alert_terminal from a document, lines        *)
(* 152-279: one snapshot is extracted from the document, the other is a     *)
(* ResultSet already extracted, and the run is then made again with the     *)
(* same measurements written in the other schema variant                    *)

\* The mappings category -> name -> mean_ns that the documents encode
Mappings ==
    Pick([lexer |-> {Absent, [parse |-> Num(1000)]},
          parser |-> {Absent} \cup
                     Pick([parse |-> {Absent, Num(1000), Num(0)},
                           _warmup |-> {Absent, Num(1000)}])])

\* The document that encodes a mapping with "results" and direct mean_ns
VariantA(mapping) ==
    [results |-> [c \in DOMAIN mapping |->
                     [n \in DOMAIN mapping[c] |-> MeanNs(Val(mapping[c][n]))]]]

\* The document that encodes it with "benchmarks" and nested means
VariantB(mapping) ==
    [benchmarks |-> [c \in DOMAIN mapping |->
                        [n \in DOMAIN mapping[c] |-> Nested(Val(mapping[c][n]))]]]

\* The mapping a document of Variant A encodes
Encoded(document) ==
    [c \in DOMAIN document["results"] |->
        [n \in DOMAIN document["results"][c] |-> document["results"][c][n]["mean_ns"]]]

\* The other snapshot of the comparison
Snapshots ==
    Pick([lexer |-> {Absent, [parse |-> MeanNs(1600)]},
          parser |-> {Absent} \cup
                     Pick([parse |-> {Absent, MeanNs(1300), MeanNs(1050), NoMean},
                           _warmup |-> {Absent, Nested(1600)}])])

\* What a run leaves behind: the tier lists and counter, the printed lines,
\* the exception and the exit status
Outcome ==
    [summary |-> summary, stdout |-> stdout, raised |-> raised, sys_exit |-> sys_exit]

InitSchema ==
    /\ pc = "extract_benchmarks"
    /\ data \in {VariantA(mapping) : mapping \in Mappings}
    /\ \/ baseline_benchmarks = None /\ current_benchmarks \in Snapshots
       \/ baseline_benchmarks \in Snapshots /\ current_benchmarks = None
    /\ config \in RunConfigs
    /\ results = EmptyDict
    /\ now = 0
    /\ bench = EmptyDict
    /\ ns = None
    /\ NoFiles
    /\ sys_exit = None
    /\ category = ""
    /\ bench_name = ""
    /\ pct_change = NoCall.pct_change
    /\ thresholds = EmptyDict
    /\ status = "none"
    /\ first = NoCall
    /\ exempted = FALSE
    /\ todo_categories = <<>>
    /\ todo_names = <<>>
    /\ summary = EmptyDict
    /\ category_alerts = <<>>
    /\ has_alerts = FALSE
    /\ counters = EmptyDict
    /\ stdout = <<>>
    /\ exit_code = None
    /\ raised = ""
    /\ REGRESSION_THRESHOLD = 20
    /\ args = EmptyDict

\* lines 160-180: the extracted ResultSet is the snapshot that was still to
\* be extracted; the tier lists are empty and the header is printed
AlertLoad ==
    /\ pc = "extracted"
    /\ baseline_benchmarks' = IF baseline_benchmarks = None THEN results
                              ELSE baseline_benchmarks
    /\ current_benchmarks' = IF baseline_benchmarks = None THEN current_benchmarks
                             ELSE results
    /\ summary' = [critical |-> <<>>, regressions |-> <<>>, warnings |-> <<>>,
                   improvements |-> <<>>, unchanged |-> 0]
    /\ stdout' = <<Line("header", "", "", "")>>
    /\ has_alerts' = FALSE
    /\ todo_categories' = sorted(DOMAIN baseline_benchmarks' \cup DOMAIN current_benchmarks')
    /\ pc' = "for_category"
    /\ UNCHANGED callVars
    /\ UNCHANGED <<todo_names, category_alerts, counters, exit_code, raised,
                   REGRESSION_THRESHOLD, args>>
    /\ UNCHANGED ioVars

\* The run is over; it is made again on the same measurements in Variant B,
\* in the place of the document of Variant A
SchemaRerun ==
    /\ pc \in {"exited", "raised"}
    /\ first = NoCall
    /\ first' = Outcome
    /\ data' = VariantB(Encoded(data))
    /\ IF baseline_benchmarks = results
       THEN baseline_benchmarks' = None /\ UNCHANGED current_benchmarks
       ELSE current_benchmarks' = None /\ UNCHANGED baseline_benchmarks
    /\ pc' = "extract_benchmarks"
    /\ results' = EmptyDict
    /\ sys_exit' = None
    /\ category' = ""
    /\ bench_name' = ""
    /\ pct_change' = NoCall.pct_change
    /\ thresholds' = EmptyDict
    /\ status' = "none"
    /\ todo_categories' = <<>>
    /\ todo_names' = <<>>
    /\ summary' = EmptyDict
    /\ category_alerts' = <<>>
    /\ has_alerts' = FALSE
    /\ stdout' = <<>>
    /\ exit_code' = None
    /\ raised' = ""
    /\ args' = EmptyDict
    /\ UNCHANGED <<config, exempted, counters, REGRESSION_THRESHOLD, now, bench, ns>>
    /\ UNCHANGED fileVars

NextSchema ==
    \/ ExtractResults
    \/ ExtractBenchmarks
    \/ ExtractCategory
    \/ ExtractGenuine
    \/ ExtractIgnored
    \/ ExtractReturn
    \/ AlertLoad
    \/ AlertSkipCategory
    \/ AlertEnterCategory
    \/ AlertExempted
    \/ AlertNoBench
    \/ AlertNoMean
    \/ AlertZeroDivision
    \/ AlertTypeError
    \/ AlertAppend
    \/ AlertUnchanged
    \/ AlertEndCategory
    \/ AlertSummary
    \/ AlertExit
    \/ SchemaRerun

SpecSchema == InitSchema /\ [][NextSchema]_vars

\* C17 as stated: the run on the document of Variant B ends as the run on
\* the document of Variant A did, with the same verdicts in the same tier
\* lists, the same unchanged counter and the same printed statuses.
C17_AsStated ==
    first # NoCall /\ pc \in {"exited", "raised"} =>
        /\ summary = first.summary
        /\ stdout = first.stdout
        /\ raised = first.raised


----------------------------------------------------------------------------
(* alert.py: generate_alert_markdown, lines 282-410, and the markdown       *)
(* branch of main, lines 457-460.  `summary` holds the local `alerts` and   *)
(* `stdout` the list `md`, which main prints.                               *)

\* The tiers in the order of the tables, lines 359-397
TierOrder == <<"CRITICAL", "REGRESSION", "WARNING", "IMPROVED">>

\* A row of a table: the tables of critical and regressions have a Status
\* column, the others do not; improvements are written without a "+"
Row(alert, tier) ==
    [kind |-> "row", category |-> alert.category, name |-> alert.name,
     pct_change |-> alert.pct_change,
     sign |-> IF tier # "IMPROVED" /\ alert.pct_change.num >= 0 THEN "+" ELSE "",
     status |-> IF tier \in {"CRITICAL", "REGRESSION"} THEN alert.status ELSE ""]

\* The table of a tier: nothing when the tier is empty
Table(alerts, tier) ==
    IF alerts[TierKey(tier)] = <<>> THEN <<>>
    ELSE <<Line("heading", "", "", tier), Line("blank", "", "", ""),
           Line("columns", "", "", tier), Line("rule", "", "", tier)>> \o
         [i \in 1..Len(alerts[TierKey(tier)]) |-> Row(alerts[TierKey(tier)][i], tier)] \o
         <<Line("blank", "", "", "")>>

\* Mutant: the table of warnings comes first
Markdown_WarningsFirst(alerts) ==
    <<Line("title", "", "", ""), Line("blank", "", "", ""), Line("baseline", "", "", ""),
      Line("current", "", "", ""), Line("blank", "", "", "")>> \o
    Table(alerts, "WARNING") \o Table(alerts, "CRITICAL") \o
    Table(alerts, "REGRESSION") \o Table(alerts, "IMPROVED") \o
    (IF \A i \in 1..4 : alerts[TierKey(TierOrder[i])] = <<>>
     THEN <<Line("no_changes", "", "", ""), Line("blank", "", "", "")>> ELSE <<>>) \o
    <<Line("separator", "", "", ""), Line("blank", "", "", ""),
      [kind |-> "summary", critical |-> Len(alerts["critical"]),
       regressions |-> Len(alerts["regressions"]), warnings |-> Len(alerts["warnings"]),
       improvements |-> Len(alerts["improvements"])],
      Line("blank", "", "", ""), Line("footer", "", "", "")>>

\* lines 352-408: the list md built from alerts
Markdown(alerts) ==
    <<Line("title", "", "", ""), Line("blank", "", "", ""), Line("baseline", "", "", ""),
      Line("current", "", "", ""), Line("blank", "", "", "")>> \o
    Table(alerts, "CRITICAL") \o Table(alerts, "REGRESSION") \o
    Table(alerts, "WARNING") \o Table(alerts, "IMPROVED") \o
    (IF \A i \in 1..4 : alerts[TierKey(TierOrder[i])] = <<>>
     THEN <<Line("no_changes", "", "", ""), Line("blank", "", "", "")>> ELSE <<>>) \o
    <<Line("separator", "", "", ""), Line("blank", "", "", ""),
      [kind |-> "summary", critical |-> Len(alerts["critical"]),
       regressions |-> Len(alerts["regressions"]), warnings |-> Len(alerts["warnings"]),
       improvements |-> Len(alerts["improvements"])],
      Line("blank", "", "", ""), Line("footer", "", "", "")>>

InitMarkdown ==
    /\ pc = "md_for_category"
    /\ config \in RunConfigs
    /\ baseline_benchmarks \in Baselines
    /\ current_benchmarks \in Currents
    /\ todo_categories = sorted(DOMAIN baseline_benchmarks \cup DOMAIN current_benchmarks)
    /\ todo_names = <<>>
    /\ category = ""
    /\ bench_name = ""
    /\ pct_change = NoCall.pct_change
    /\ thresholds = EmptyDict
    /\ status = "none"
    /\ first = NoCall
    /\ exempted = FALSE
    /\ summary = [critical |-> <<>>, regressions |-> <<>>, warnings |-> <<>>,
                  improvements |-> <<>>]
    /\ category_alerts = <<>>
    /\ has_alerts = FALSE
    /\ counters = EmptyDict
    /\ stdout = <<>>
    /\ exit_code = None
    /\ raised = ""
    /\ REGRESSION_THRESHOLD = 20
    /\ args = [format |-> "markdown"]
    /\ NoIO

\* What no step of generate_alert_markdown changes
MarkdownFrame ==
    /\ UNCHANGED <<config, first, baseline_benchmarks, current_benchmarks, category_alerts,
                   has_alerts, counters, exit_code, REGRESSION_THRESHOLD, args>>
    /\ UNCHANGED docVars

\* lines 301-303: the category is not in both sets
MarkdownSkipCategory ==
    /\ pc = "md_for_category"
    /\ todo_categories # <<>>
    /\ \/ Head(todo_categories) \notin DOMAIN baseline_benchmarks
       \/ Head(todo_categories) \notin DOMAIN current_benchmarks
    /\ category' = Head(todo_categories)
    /\ todo_categories' = Tail(todo_categories)
    /\ UNCHANGED <<pc, bench_name, pct_change, thresholds, status, exempted, todo_names,
                   summary, stdout, raised, sys_exit>>
    /\ MarkdownFrame

\* lines 305-308: the category is in both sets
MarkdownEnterCategory ==
    /\ pc = "md_for_category"
    /\ todo_categories # <<>>
    /\ Head(todo_categories) \in DOMAIN baseline_benchmarks
    /\ Head(todo_categories) \in DOMAIN current_benchmarks
    /\ category' = Head(todo_categories)
    /\ todo_categories' = Tail(todo_categories)
    /\ todo_names' = sorted(DOMAIN baseline_benchmarks[Head(todo_categories)])
    /\ pc' = "md_for_bench"
    /\ UNCHANGED <<bench_name, pct_change, thresholds, status, exempted, summary, stdout,
                   raised, sys_exit>>
    /\ MarkdownFrame

\* lines 309-322: the iteration ends at one of the three `continue`
MarkdownContinue ==
    /\ pc = "md_for_bench"
    /\ todo_names # <<>>
    /\ AlertVisit(category, Head(todo_names)).outcome \in {"exempted", "no_bench", "no_mean"}
    /\ bench_name' = Head(todo_names)
    /\ todo_names' = Tail(todo_names)
    /\ exempted' = (AlertVisit(category, Head(todo_names)).outcome = "exempted")
    /\ UNCHANGED <<pc, category, pct_change, thresholds, status, todo_categories, summary,
                   stdout, raised, sys_exit>>
    /\ MarkdownFrame

\* line 324 divides by a zero base_ns, or line 326 compares with None
MarkdownRaise ==
    /\ pc = "md_for_bench"
    /\ todo_names # <<>>
    /\ AlertVisit(category, Head(todo_names)).outcome \in {"ZeroDivisionError", "TypeError"}
    /\ bench_name' = Head(todo_names)
    /\ todo_names' = Tail(todo_names)
    /\ exempted' = FALSE
    /\ raised' = AlertVisit(category, Head(todo_names)).outcome
    /\ pc' = "raised"
    /\ UNCHANGED <<category, pct_change, thresholds, status, todo_categories, summary,
                   stdout, sys_exit>>
    /\ MarkdownFrame

\* lines 324-349: the benchmark is classified into one of the four tiers
MarkdownAppend ==
    /\ pc = "md_for_bench"
    /\ todo_names # <<>>
    /\ LET v == AlertVisit(category, Head(todo_names))
       IN  /\ v.outcome = "alert"
           /\ pct_change' = v.pct_change
           /\ thresholds' = v.thresholds
           /\ status' = v.status
           /\ summary' = [summary EXCEPT ![TierKey(v.status)] =
                             Append(@, Alert(category, Head(todo_names), v.pct_change,
                                             v.status))]
    /\ bench_name' = Head(todo_names)
    /\ todo_names' = Tail(todo_names)
    /\ exempted' = FALSE
    /\ UNCHANGED <<pc, category, todo_categories, stdout, raised, sys_exit>>
    /\ MarkdownFrame

\* lines 324-328: the benchmark is classified OK, and nothing is recorded
MarkdownUnchanged ==
    /\ pc = "md_for_bench"
    /\ todo_names # <<>>
    /\ LET v == AlertVisit(category, Head(todo_names))
       IN  /\ v.outcome = "unchanged"
           /\ pct_change' = v.pct_change
           /\ thresholds' = v.thresholds
           /\ status' = v.status
    /\ bench_name' = Head(todo_names)
    /\ todo_names' = Tail(todo_names)
    /\ exempted' = FALSE
    /\ UNCHANGED <<pc, category, todo_categories, summary, stdout, raised, sys_exit>>
    /\ MarkdownFrame

\* line 308: the names of the category are exhausted
MarkdownEndCategory ==
    /\ pc = "md_for_bench"
    /\ todo_names = <<>>
    /\ pc' = "md_for_category"
    /\ UNCHANGED <<category, bench_name, pct_change, thresholds, status, exempted,
                   todo_categories, todo_names, summary, stdout, raised, sys_exit>>
    /\ MarkdownFrame

\* lines 352-410 and main, lines 457-460: md is built, joined and printed,
\* and the process exits with 0
MarkdownExit ==
    /\ pc = "md_for_category"
    /\ todo_categories = <<>>
    /\ stdout' = Markdown(summary)
    /\ sys_exit' = Num(0)
    /\ pc' = "exited"
    /\ UNCHANGED <<category, bench_name, pct_change, thresholds, status, exempted,
                   todo_categories, todo_names, summary, raised>>
    /\ MarkdownFrame

NextMarkdown ==
    \/ MarkdownSkipCategory
    \/ MarkdownEnterCategory
    \/ MarkdownContinue
    \/ MarkdownRaise
    \/ MarkdownAppend
    \/ MarkdownUnchanged
    \/ MarkdownEndCategory
    \/ MarkdownExit

SpecMarkdown == InitMarkdown /\ [][NextMarkdown]_vars

\* The benchmarks of the shared categories that are classified into a tier
Expected(tier) ==
    {p \in Pairs(baseline_benchmarks) :
        /\ p[1] \in DOMAIN current_benchmarks
        /\ AlertVisit(p[1], p[2]).outcome = "alert"
        /\ AlertVisit(p[1], p[2]).status = tier}

\* The places of the headings of a tier, and of the rows of its table
HeadingsOf(tier) ==
    {i \in 1..Len(stdout) : stdout[i].kind = "heading" /\ stdout[i].status = tier}
RowsOf(tier) ==
    {i \in 1..Len(stdout) :
        /\ stdout[i].kind = "row"
        /\ \E h \in HeadingsOf(tier) :
              /\ h < i
              /\ \A j \in (h + 1)..(i - 1) : stdout[j].kind # "heading"}

\* C19: the markdown has one table for a tier exactly when some benchmark is
\* classified into that tier; the tables stand in the order critical,
\* regression, warning, improvement; every such benchmark is one row, of the
\* table of its status, and the tables have no other rows; and the summary
\* line gives for each tier the number of rows of its table.
C19_MarkdownTables ==
    pc = "exited" =>
        /\ \A i \in 1..4 :
              LET tier == TierOrder[i]
              IN  /\ Cardinality(HeadingsOf(tier)) = IF Expected(tier) = {} THEN 0 ELSE 1
                  /\ \A p \in Expected(tier) :
                        /\ Cardinality({r \in 1..Len(stdout) :
                                           /\ stdout[r].kind = "row"
                                           /\ stdout[r].category = p[1]
                                           /\ stdout[r].name = p[2]}) = 1
                        /\ \E r \in RowsOf(tier) :
                              stdout[r].category = p[1] /\ stdout[r].name = p[2]
                  /\ \A r \in RowsOf(tier) :
                        <<stdout[r].category, stdout[r].name>> \in Expected(tier)
                  /\ \E l \in 1..Len(stdout) :
                        /\ stdout[l].kind = "summary"
                        /\ stdout[l][TierKey(tier)] = Cardinality(RowsOf(tier))
        /\ \A i, j \in 1..4 :
              i < j => \A a \in HeadingsOf(TierOrder[i]), b \in HeadingsOf(TierOrder[j]) :
                           a < b
        /\ Cardinality({l \in 1..Len(stdout) : stdout[l].kind = "summary"}) = 1

\* The markdown has a table of critical regressions and, after it, a table
\* of warnings, and no table of regressions or improvements
C19_Witness ==
    /\ pc = "exited"
    /\ HeadingsOf("CRITICAL") # {}
    /\ HeadingsOf("WARNING") # {}
    /\ HeadingsOf("REGRESSION") = {}
    /\ HeadingsOf("IMPROVED") = {}
    /\ \E r \in RowsOf("WARNING") : stdout[r].category = "parser"

----------------------------------------------------------------------------
(* format-results.py: print_receipt (lines 162-219), called by main with    *)
(* the parsed document when --receipt is given; it prints the header, calls *)
(* extract_benchmarks (the steps above) and prints the ledger               *)

\* The latest second the wall clock reaches
MaxNow == 1

\* bool(v) of a JSON value
Truthy(v) == v \notin {None, Str(""), Num(0), Bool(FALSE), List(<<>>), EmptyDict}

\* datetime.now().strftime(...) for the two formats of print_receipt
\* (lines 173, 182): the clock starts at 2026-11-04 05:00:00
Timestamp(t) == "2026-11-04 05:00:0" \o SubSeq(Digits, t + 1, t + 1)
RunId(t) == "bench-20261104-05000" \o SubSeq(Digits, t + 1, t + 1)

\* lines 168-171: datetime.fromisoformat(s.replace("Z", "+00:00")) printed
\* with "%Y-%m-%d %H:%M:%S"; a str that is no ISO date is kept (ValueError)
IsoDates == [s \in {"2026-01-02T03:04:05Z", "2026-01-02T03:04:05+00:00"}
                |-> "2026-01-02 03:04:05"]
Reformat(s) == IF s \in DOMAIN IsoDates THEN IsoDates[s] ELSE s

\* A variant of HeaderTime that prints the time of the clock although the
\* document has a timestamp
HeaderTime_Clock(d, t) == Timestamp(t)

\* lines 165-173: the timestamp of the header
HeaderTime(d, t) ==
    LET top == Get(d, "timestamp", None)
        timestamp_raw == IF Truthy(top) THEN top
                         ELSE Get(Get(d, "metadata", EmptyDict), "date", None)
    IN  IF Truthy(timestamp_raw) THEN Reformat(timestamp_raw.str) ELSE Timestamp(t)

\* lines 175-176: d.get(key) or d.get("metadata", {}).get(key, "unknown")
Meta(d, key) ==
    LET top == Get(d, key, None)
    IN  IF Truthy(top) THEN top.str
        ELSE Get(Get(d, "metadata", EmptyDict), key, Str("unknown")).str

\* str.upper()
Lower == "abcdefghijklmnopqrstuvwxyz"
Upper == "ABCDEFGHIJKLMNOPQRSTUVWXYZ"
RECURSIVE upper(_)
upper(s) ==
    IF s = "" THEN ""
    ELSE LET c == SubSeq(s, 1, 1)
             at == {i \in 1..Len(Lower) : SubSeq(Lower, i, i) = c}
         IN  (IF at = {} THEN c ELSE LET i == CHOOSE j \in at : TRUE
                                     IN  SubSeq(Upper, i, i))
             \o upper(SubSeq(s, 2, Len(s)))

\* A variant of Marker that tests the truth of meets_target and not its
\* identity with True
Marker_Truthy(values) ==
    LET meets == Get(values, "meets_target", None)
    IN  IF Truthy(meets) THEN " [OK]"
        ELSE IF meets = Bool(FALSE) THEN " [FAIL]"
        ELSE ""

\* lines 200-207: the marker of a printed benchmark
Marker(values) ==
    LET meets == Get(values, "meets_target", None)
    IN  IF meets = Bool(TRUE) THEN " [OK]"
        ELSE IF meets = Bool(FALSE) THEN " [FAIL]"
        ELSE ""

\* A line of the ledger that holds a number
Count(kind, n) == [kind |-> kind, count |-> n]

\* line 208: the line of a benchmark, with its mean and its marker
BenchLine(cat, name, mean, status_char) ==
    [kind |-> "bench", category |-> cat, name |-> name, ns |-> mean,
     status |-> status_char]

\* The measurements of the documents, with and without meets_target: true,
\* false, a str and a number
Targeted(entries) ==
    {Update(e, t) : e \in entries,
                    t \in OptionalKey("meets_target",
                                      {Bool(TRUE), Bool(FALSE), Str("yes"), Num(1)})}

\* The header fields of the documents
Stamps ==
    Pick([timestamp |-> {Absent, Str("2026-01-02T03:04:05Z"), Str("yesterday"), Str("")},
          git_sha |-> {Absent, Str("abc1234")},
          metadata |-> {Absent, [date |-> Str("2026-01-02T03:04:05+00:00")]}])

\* The documents print_receipt is given: of Variant A with up to three
\* benchmarks, of Variant B, without benchmarks, and malformed ones
ReceiptBodies ==
    {[results |-> r] :
        r \in Pick([lexer |-> {Absent} \cup Pick([parse |-> Targeted({MeanNs(1000)})]),
                    parser |-> {Absent} \cup
                               Pick([parse |-> {Absent} \cup
                                               Targeted({MeanNs(1000), NoMean}),
                                     tokenize |-> {Absent,
                                                   Update(Nested(500), [meets_target |-> Bool(TRUE)]),
                                                   Update(Nested(500), [meets_target |-> Bool(FALSE)])}])])}
    \cup {[benchmarks |-> b] :
            b \in Pick([parser |-> {Absent} \cup Pick([parse |-> Targeted({Nested(1000)})]),
                        startup |-> {Absent, Num(1),
                                     Update(MeanNs(5), [meets_target |-> Bool(FALSE)])}])}
    \cup {EmptyDict, [results |-> None], [results |-> [lexer |-> Num(3)]],
          [results |-> [lexer |-> [parse |-> [mean_ns |-> None, meets_target |-> Bool(TRUE)]]]]}

ReceiptDocs == {Update(body, stamp) : body \in ReceiptBodies, stamp \in Stamps}

InitReceipt ==
    /\ pc = "print_receipt"
    /\ args = [receipt |-> TRUE]
    /\ data \in ReceiptDocs
    /\ now = 0
    /\ results = EmptyDict
    /\ bench = EmptyDict
    /\ ns = None
    /\ NoFiles
    /\ sys_exit = None
    /\ config = EmptyDict
    /\ category = ""
    /\ bench_name = ""
    /\ pct_change = NoCall.pct_change
    /\ thresholds = EmptyDict
    /\ status = "none"
    /\ first = NoCall
    /\ exempted = FALSE
    /\ baseline_benchmarks = EmptyDict
    /\ current_benchmarks = EmptyDict
    /\ todo_categories = <<>>
    /\ todo_names = <<>>
    /\ summary = EmptyDict
    /\ category_alerts = <<>>
    /\ has_alerts = FALSE
    /\ counters = EmptyDict
    /\ stdout = <<>>
    /\ exit_code = None
    /\ raised = ""
    /\ REGRESSION_THRESHOLD = 20

\* What a step of print_receipt leaves alone
ReceiptFrame ==
    /\ UNCHANGED <<config, pct_change, thresholds, status, first, exempted>>
    /\ UNCHANGED <<baseline_benchmarks, current_benchmarks, summary, category_alerts,
                   has_alerts, exit_code, REGRESSION_THRESHOLD, args>>
    /\ UNCHANGED <<data, results>>
    /\ UNCHANGED fileVars

\* A second of the wall clock passes before print_receipt reads the clock
ReceiptTick ==
    /\ pc \in {"print_receipt", "run_id"}
    /\ now < MaxNow
    /\ now' = now + 1
    /\ UNCHANGED <<pc, category, bench_name, todo_categories, todo_names, counters, stdout,
                   raised, sys_exit, bench, ns>>
    /\ ReceiptFrame

\* lines 165-181: the header with the timestamp of the document, or with the
\* time of the clock when the document has none
ReceiptTitle ==
    /\ pc = "print_receipt"
    /\ stdout' = <<Line("rule", "", "", ""),
                   Line("title", "", "", HeaderTime(data, now)),
                   Line("rule", "", "", ""),
                   Line("blank", "", "", "")>>
    /\ pc' = "run_id"
    /\ UNCHANGED <<now, category, bench_name, todo_categories, todo_names, counters,
                   raised, sys_exit, bench, ns>>
    /\ ReceiptFrame

\* lines 182-187: the run identifier made from the clock, the commit and the
\* version; then extract_benchmarks(data) is called
ReceiptRunId ==
    /\ pc = "run_id"
    /\ stdout' = stdout \o <<Line("run_id", "", "", RunId(now)),
                             Line("git_sha", "", "", Meta(data, "git_sha")),
                             Line("version", "", "", Meta(data, "version")),
                             Line("blank", "", "", "")>>
    /\ pc' = "extract_benchmarks"
    /\ UNCHANGED <<now, category, bench_name, todo_categories, todo_names, counters,
                   raised, sys_exit, bench, ns>>
    /\ ReceiptFrame

\* lines 188-192: the counters start at zero and the categories are sorted
ReceiptBegin ==
    /\ pc = "extracted"
    /\ counters' = [total_benchmarks |-> 0, passed |-> 0, failed |-> 0]
    /\ todo_categories' = sorted(DOMAIN results)
    /\ pc' = "receipt_for_category"
    /\ UNCHANGED <<now, category, bench_name, todo_names, stdout, raised, sys_exit, bench, ns>>
    /\ ReceiptFrame

\* lines 192-195: the heading of the next category
ReceiptEnterCategory ==
    /\ pc = "receipt_for_category"
    /\ todo_categories # <<>>
    /\ category' = Head(todo_categories)
    /\ todo_categories' = Tail(todo_categories)
    /\ todo_names' = sorted(DOMAIN results[Head(todo_categories)])
    /\ stdout' = stdout \o <<Line("category", upper(Head(todo_categories)), "", "")>>
    /\ pc' = "receipt_for_name"
    /\ UNCHANGED <<now, bench_name, counters, raised, sys_exit, bench, ns>>
    /\ ReceiptFrame

\* lines 196-209: a benchmark with a mean is printed with its marker and
\* counted; passed and failed count the markers
ReceiptPrint ==
    /\ pc = "receipt_for_name"
    /\ todo_names # <<>>
    /\ LET name == Head(todo_names)
           values == results[category][name]
           status_char == Marker(values)
       IN  /\ "int" \in DOMAIN extract_mean_ns(values)
           /\ bench_name' = name
           /\ bench' = values
           /\ ns' = extract_mean_ns(values)
           /\ stdout' = stdout \o <<BenchLine(category, name, Val(extract_mean_ns(values)),
                                              status_char)>>
           /\ counters' = [total_benchmarks |-> counters["total_benchmarks"] + 1,
                           passed |-> counters["passed"]
                                      + (IF status_char = " [OK]" THEN 1 ELSE 0),
                           failed |-> counters["failed"]
                                      + (IF status_char = " [FAIL]" THEN 1 ELSE 0)]
    /\ todo_names' = Tail(todo_names)
    /\ UNCHANGED <<pc, now, category, todo_categories, raised, sys_exit>>
    /\ ReceiptFrame

\* line 198: a benchmark without a mean is not printed and not counted
ReceiptNoMean ==
    /\ pc = "receipt_for_name"
    /\ todo_names # <<>>
    /\ LET values == results[category][Head(todo_names)]
       IN  /\ extract_mean_ns(values) = None
           /\ bench' = values
           /\ ns' = None
    /\ bench_name' = Head(todo_names)
    /\ todo_names' = Tail(todo_names)
    /\ UNCHANGED <<pc, now, category, todo_categories, counters, stdout, raised, sys_exit>>
    /\ ReceiptFrame

\* line 197: extract_mean_ns raises, and nothing catches it
ReceiptRaise ==
    /\ pc = "receipt_for_name"
    /\ todo_names # <<>>
    /\ LET values == results[category][Head(todo_names)]
       IN  /\ "raise" \in DOMAIN extract_mean_ns(values)
           /\ bench' = values
           /\ ns' = extract_mean_ns(values)
           /\ raised' = extract_mean_ns(values).raise
    /\ bench_name' = Head(todo_names)
    /\ pc' = "raised"
    /\ UNCHANGED <<now, category, todo_categories, todo_names, counters, stdout, sys_exit>>
    /\ ReceiptFrame

\* line 210: the blank line after a category
ReceiptEndCategory ==
    /\ pc = "receipt_for_name"
    /\ todo_names = <<>>
    /\ stdout' = stdout \o <<Line("blank", "", "", "")>>
    /\ pc' = "receipt_for_category"
    /\ UNCHANGED <<now, category, bench_name, todo_categories, todo_names, counters,
                   raised, sys_exit, bench, ns>>
    /\ ReceiptFrame

\* lines 212-219: the summary, with the two target counts when one of them
\* is not zero, and the closing status; print_receipt returns, main returns
\* and the process exits with status 0
ReceiptSummary ==
    /\ pc = "receipt_for_category"
    /\ todo_categories = <<>>
    /\ stdout' = stdout
                 \o <<Line("summary", "", "", ""),
                      Count("total", counters["total_benchmarks"])>>
                 \o (IF counters["passed"] > 0 \/ counters["failed"] > 0
                     THEN <<Count("passed", counters["passed"]),
                            Count("failed", counters["failed"])>>
                     ELSE <<>>)
                 \o <<Line("blank", "", "", ""),
                      Line("status", "", "", "STATUS: COMPLETE"),
                      Line("rule", "", "", "")>>
    /\ sys_exit' = Num(0)
    /\ pc' = "exited"
    /\ UNCHANGED <<now, category, bench_name, todo_categories, todo_names, counters,
                   raised, bench, ns>>
    /\ ReceiptFrame

NextReceipt ==
    \/ ReceiptTick
    \/ ReceiptTitle
    \/ ReceiptRunId
    \/ ExtractRaise
    \/ ExtractResults
    \/ ExtractBenchmarks
    \/ ExtractNeither
    \/ ExtractCategory
    \/ ExtractNotCategory
    \/ ExtractGenuine
    \/ ExtractFlat
    \/ ExtractIgnored
    \/ ExtractReturn
    \/ ReceiptBegin
    \/ ReceiptEnterCategory
    \/ ReceiptPrint
    \/ ReceiptNoMean
    \/ ReceiptRaise
    \/ ReceiptEndCategory
    \/ ReceiptSummary

SpecReceipt == InitReceipt /\ [][NextReceipt]_vars

\* The lines of the ledger printed for a benchmark
LedgerLines(p) ==
    {i \in 1..Len(stdout) : /\ stdout[i].kind = "bench"
                            /\ stdout[i].category = p[1]
                            /\ stdout[i].name = p[2]}

\* The benchmarks of the ResultSet whose meets_target is the given value
Meeting(b) ==
    {p \in Pairs(results) : /\ "meets_target" \in DOMAIN results[p[1]][p[2]]
                            /\ results[p[1]][p[2]]["meets_target"] = Bool(b)}

\* C20: when print_receipt returns, the last two lines it printed are
\* "STATUS: COMPLETE" and the closing rule, however many benchmarks have
\* meets_target false; a benchmark with a mean is printed once, with [OK]
\* exactly when its meets_target is true, [FAIL] exactly when it is false
\* and no marker otherwise, and one without a mean is not printed; passed
\* and failed count the markers, and at every step of the run passed +
\* failed is at most the total.
C20_ReceiptComplete ==
    /\ "passed" \in DOMAIN counters =>
          counters["passed"] + counters["failed"] <= counters["total_benchmarks"]
    /\ pc = "exited" =>
          /\ stdout[Len(stdout) - 1] = Line("status", "", "", "STATUS: COMPLETE")
          /\ stdout[Len(stdout)] = Line("rule", "", "", "")
          /\ \A i \in 1..Len(stdout) : stdout[i].kind = "status" => i = Len(stdout) - 1
          /\ \A p \in Pairs(results) :
                IF MeanIn(results, p) = None THEN LedgerLines(p) = {}
                ELSE /\ Cardinality(LedgerLines(p)) = 1
                     /\ \A i \in LedgerLines(p) :
                           /\ stdout[i].status = " [OK]" <=> p \in Meeting(TRUE)
                           /\ stdout[i].status = " [FAIL]" <=> p \in Meeting(FALSE)
                           /\ stdout[i].status \in {" [OK]", " [FAIL]", ""}
          /\ counters["passed"] =
                Cardinality({p \in Meeting(TRUE) : MeanIn(results, p) # None})
          /\ counters["failed"] =
                Cardinality({p \in Meeting(FALSE) : MeanIn(results, p) # None})
          /\ counters["total_benchmarks"] =
                Cardinality({p \in Pairs(results) : MeanIn(results, p) # None})

\* print_receipt has returned for a ResultSet of at least two benchmarks
\* that all failed their target
C20_Witness ==
    /\ pc = "exited"
    /\ "failed" \in DOMAIN counters
    /\ counters["failed"] >= 2
    /\ counters["failed"] = counters["total_benchmarks"]
    /\ counters["failed"] = Cardinality(Pairs(results))

----------------------------------------------------------------------------
(* Two runs on the same inputs: a renderer (generate_alert_terminal,        *)
(* generate_alert_markdown or print_receipt) runs to its end, and is then   *)
(* run again on the same snapshots and policy, or on the same document, at  *)
(* the same or a later time of the clock                                    *)

\* The policies and the current snapshots of the two runs
RenderConfigs == {c \in RunConfigs : "alerting" \in DOMAIN c}
RenderCurrents ==
    {c \in Currents : "lexer" \in DOMAIN c => c["lexer"]["parse"] = MeanNs(1600)}

\* The documents of the two runs of print_receipt
RenderDocs == {d \in ReceiptDocs : DOMAIN d \cap {"git_sha", "metadata"} = {}}

\* The renderer main has chosen (alert.py lines 457-466, format-results.py
\* lines 238-243)
Renderer ==
    IF "receipt" \in DOMAIN args THEN "receipt"
    ELSE IF Get(args, "format", "terminal") = "markdown" THEN "markdown"
    ELSE "console"

InitRender ==
    \/ /\ InitAlert
       /\ config \in RenderConfigs
       /\ current_benchmarks \in RenderCurrents
    \/ /\ InitMarkdown
       /\ config \in RenderConfigs
       /\ current_benchmarks \in RenderCurrents
    \/ /\ InitReceipt
       /\ data \in RenderDocs

\* The first run is over; the same command is run again, and the clock may
\* have advanced in between
RenderRerun ==
    /\ pc \in {"exited", "raised"}
    /\ first = NoCall
    /\ first' = Outcome
    /\ now' \in now..MaxNow
    /\ pc' = IF Renderer = "receipt" THEN "print_receipt"
             ELSE IF Renderer = "markdown" THEN "md_for_category"
             ELSE "for_category"
    /\ todo_categories' =
          IF Renderer = "receipt" THEN <<>>
          ELSE sorted(DOMAIN baseline_benchmarks \cup DOMAIN current_benchmarks)
    /\ summary' =
          IF Renderer = "receipt" THEN EmptyDict
          ELSE IF Renderer = "markdown"
          THEN [critical |-> <<>>, regressions |-> <<>>, warnings |-> <<>>,
                improvements |-> <<>>]
          ELSE [critical |-> <<>>, regressions |-> <<>>, warnings |-> <<>>,
                improvements |-> <<>>, unchanged |-> 0]
    /\ stdout' = IF Renderer = "console" THEN <<Line("header", "", "", "")>> ELSE <<>>
    /\ args' = IF Renderer = "console" THEN EmptyDict ELSE args
    /\ todo_names' = <<>>
    /\ category' = ""
    /\ bench_name' = ""
    /\ pct_change' = NoCall.pct_change
    /\ thresholds' = EmptyDict
    /\ status' = "none"
    /\ exempted' = FALSE
    /\ category_alerts' = <<>>
    /\ has_alerts' = FALSE
    /\ counters' = EmptyDict
    /\ exit_code' = None
    /\ raised' = ""
    /\ sys_exit' = None
    /\ results' = EmptyDict
    /\ bench' = EmptyDict
    /\ ns' = None
    /\ UNCHANGED <<config, baseline_benchmarks, current_benchmarks, data,
                   REGRESSION_THRESHOLD>>
    /\ UNCHANGED fileVars

NextRender ==
    \/ AlertSkipCategory
    \/ AlertEnterCategory
    \/ AlertExempted
    \/ AlertNoBench
    \/ AlertNoMean
    \/ AlertZeroDivision
    \/ AlertTypeError
    \/ AlertAppend
    \/ AlertUnchanged
    \/ AlertEndCategory
    \/ AlertSummary
    \/ AlertExit
    \/ MarkdownSkipCategory
    \/ MarkdownEnterCategory
    \/ MarkdownContinue
    \/ MarkdownRaise
    \/ MarkdownAppend
    \/ MarkdownUnchanged
    \/ MarkdownEndCategory
    \/ MarkdownExit
    \/ ReceiptTick
    \/ ReceiptTitle
    \/ ReceiptRunId
    \/ ExtractRaise
    \/ ExtractResults
    \/ ExtractBenchmarks
    \/ ExtractNeither
    \/ ExtractCategory
    \/ ExtractNotCategory
    \/ ExtractGenuine
    \/ ExtractFlat
    \/ ExtractIgnored
    \/ ExtractReturn
    \/ ReceiptBegin
    \/ ReceiptEnterCategory
    \/ ReceiptPrint
    \/ ReceiptNoMean
    \/ ReceiptRaise
    \/ ReceiptEndCategory
    \/ ReceiptSummary
    \/ RenderRerun

SpecRender == InitRender /\ [][NextRender]_vars

\* The second run is over
Rerun == first # NoCall /\ pc \in {"exited", "raised"}

\* The document gives the header of the receipt its timestamp
Stamped(d) ==
    \/ Truthy(Get(d, "timestamp", None))
    \/ Truthy(Get(Get(d, "metadata", EmptyDict), "date", None))

\* C18 as stated: the second run of a renderer prints what the first run
\* printed, whatever the time of each run.
C18_AsStated == Rerun => stdout = first.stdout

\* C18, amended: the second run ends as the first did and prints as many
\* lines; the console and the markdown renderer print the same lines, and
\* the receipt prints the same lines but for the run identifier and, when
\* the document carries no timestamp, the title, which are made from the
\* clock.
C18_SameButClock ==
    Rerun =>
        /\ raised = first.raised
        /\ Len(stdout) = Len(first.stdout)
        /\ \A i \in 1..Len(stdout) :
              stdout[i] # first.stdout[i] =>
                  /\ Renderer = "receipt"
                  /\ stdout[i].kind = first.stdout[i].kind
                  /\ \/ stdout[i].kind = "run_id"
                     \/ stdout[i].kind = "title" /\ ~Stamped(data)

\* The receipt of a stamped document with two benchmarks has been printed a
\* second time, later than the first, and only its run identifier differs
C18_Witness ==
    /\ Rerun
    /\ pc = "exited"
    /\ Renderer = "receipt"
    /\ Stamped(data)
    /\ counters["total_benchmarks"] >= 2
    /\ stdout # first.stdout
    /\ {i \in 1..Len(stdout) : stdout[i] # first.stdout[i]} = {5}

----------------------------------------------------------------------------
(* The layers of the threshold policy and the wildcard exemptions           *)

\* C27 as stated: a critical_path entry for category/name that sets
\* improvement_threshold_pct makes its value the improvement threshold the
\* benchmark is classified with, as it does for the other three fields.
C27_AsStated ==
    (pc = "resolved" /\ Matching # {}) =>
        \A f \in Fields \cap DOMAIN FirstEntry :
            Effective(thresholds, f) = FirstEntry[f]

\* C29 as stated: with "c/*" as the only pattern, no benchmark of a category
\* other than c is exempted.
C29_AsStated ==
    pc = "exempt_checked" =>
        \A c \in Categories :
            (Get(config, "exemptions", <<>>) = <<c \o "/*">> /\ category # c)
                => ~exempted

----------------------------------------------------------------------------
(* get_threshold_for_benchmark and then classify_change, as the loops of    *)
(* generate_alert_terminal call them (alert.py lines 208-209), for a         *)
(* benchmark and then for the other benchmark of the same category          *)

\* The percentages the benchmarks changed by
ResolvePcts == {[num |-> n, den |-> 1] : n \in {0 - 15, 5, 15, 30, 60}}

\* Policies with at most one critical_path entry
ResolveConfigs == {c \in ThresholdConfigs : Len(Get(c, "critical_path", <<>>)) <= 1}

InitResolve ==
    /\ pc = "get_threshold_for_benchmark"
    /\ config \in ResolveConfigs
    /\ category \in {"lexer", "parser"}
    /\ bench_name \in BenchNames
    /\ pct_change \in ResolvePcts
    /\ thresholds = EmptyDict
    /\ status = "none"
    /\ first = NoCall
    /\ exempted = FALSE
    /\ NoRun

\* line 209: status = classify_change(pct_change, thresholds); a TypeError
\* that it raises is the status
ResolveClassify ==
    /\ pc = "resolved"
    /\ status' = classify_change(pct_change, thresholds)
    /\ pc' = "classified"
    /\ UNCHANGED <<config, category, bench_name, pct_change, thresholds, first, exempted>>
    /\ UNCHANGED runVars
    /\ UNCHANGED ioVars

\* The other benchmark of the category has changed by as much
ResolveOther ==
    /\ pc = "classified"
    /\ first = NoCall
    /\ first' = [pct_change |-> pct_change, status |-> status]
    /\ bench_name' \in BenchNames \ {bench_name}
    /\ thresholds' = EmptyDict
    /\ status' = "none"
    /\ pc' = "get_threshold_for_benchmark"
    /\ UNCHANGED <<config, category, pct_change, exempted>>
    /\ UNCHANGED runVars
    /\ UNCHANGED ioVars

NextResolve == ThresholdCall \/ ResolveClassify \/ ResolveOther

SpecResolve == InitResolve /\ [][NextResolve]_vars

\* The critical_path entry that named the benchmark classified first, or
\* EmptyDict when none did
EntryOfFirst ==
    LET critical_path == Get(config, "critical_path", <<>>)
        i == FirstMatch(critical_path,
                        category \o "/" \o (CHOOSE n \in BenchNames : n # bench_name), 1)
    IN  IF i = 0 THEN EmptyDict ELSE critical_path[i]

\* C30 as stated: a benchmark named by a critical_path entry that sets no
\* threshold field is classified without failure, and as the benchmark of
\* the same category and the same change that no entry names: a field no
\* layer sets is classified with the built-in fallback in both.
C30_AsStated ==
    (/\ pc = "classified"
     /\ first # NoCall
     /\ Matching = {}
     /\ DOMAIN EntryOfFirst = {"name"}) =>
        /\ first.status # "TypeError"
        /\ first.status = status

----------------------------------------------------------------------------
(* extract_benchmarks called a second time on the same document, whose      *)
(* keys may be iterated in another order                                    *)

\* The ResultSet is kept and the document is extracted again
ExtractAgain ==
    /\ pc = "extracted"
    /\ first = NoCall
    /\ first' = [results |-> results]
    /\ results' = EmptyDict
    /\ todo_categories' = <<>>
    /\ pc' = "extract_benchmarks"
    /\ UNCHANGED <<config, category, bench_name, pct_change, thresholds, status, exempted>>
    /\ UNCHANGED <<baseline_benchmarks, current_benchmarks, todo_names, summary,
                   category_alerts, has_alerts, counters, stdout, exit_code, raised,
                   REGRESSION_THRESHOLD, args>>
    /\ UNCHANGED <<sys_exit, data, now, bench, ns>>
    /\ UNCHANGED fileVars

NextReorder ==
    \/ ExtractRaise
    \/ ExtractResults
    \/ ExtractBenchmarks
    \/ ExtractNeither
    \/ ExtractCategory
    \/ ExtractNotCategory
    \/ ExtractGenuine
    \/ ExtractFlat
    \/ ExtractIgnored
    \/ ExtractReturn
    \/ ExtractAgain

SpecReorder == InitExtract /\ [][NextReorder]_vars

\* C26 as stated: the second extraction of a document, in whatever order its
\* keys are iterated, returns the ResultSet the first extraction returned.
C26_AsStated ==
    (pc = "extracted" /\ first # NoCall) => results = first.results

----------------------------------------------------------------------------
(* The file system and the paths main works with (alert.py lines 425-454,   *)
(* compare.py lines 219-261).  A path is written relative to repo_root; a   *)
(* file holds the value it parses to, or the exception its parser raises    *)

\* pathlib.Path(p)
Path(p) == [path |-> p]

ConfigPath == ".ci/benchmark-thresholds.yaml"
BaselinesDir == "benchmarks/baselines"
LatestPath == "benchmarks/results/latest.json"

\* path.exists()
Exists(p) == p.path \in DOMAIN files

\* reversed order of a list
Reversed(seq) == [i \in 1..Len(seq) |-> seq[Len(seq) + 1 - i]]

\* dir.glob("*.json"), as paths: the entries of the directory itself whose
\* name ends in ".json"; a directory that does not exist has none
Glob(fs, dir) ==
    {f \in DOMAIN fs :
        /\ StartsWith(f, dir \o "/")
        /\ EndsWith(f, ".json")
        /\ ~Contains(SubSeq(f, Len(dir) + 2, Len(f)), "/")}

\* A variant of find_latest_baseline that sorts without reverse=True
find_latest_baseline_Oldest(fs) ==
    IF BaselinesDir \notin DOMAIN fs THEN None
    ELSE LET baseline_files == sorted(Glob(fs, BaselinesDir))
         IN  IF baseline_files # <<>> THEN Path(baseline_files[1]) ELSE None

\* compare.py lines 219-226
find_latest_baseline(fs) ==
    IF BaselinesDir \notin DOMAIN fs THEN None
    ELSE LET baseline_files == Reversed(sorted(Glob(fs, BaselinesDir)))
         IN  IF baseline_files # <<>> THEN Path(baseline_files[1]) ELSE None

\* The files of the runs: the policy
MainPolicies ==
    {Absent, Raise("YAMLError"),
     [defaults |-> FullDefaults, alerting |-> [fail_on_critical |-> TRUE]],
     [defaults |-> FullDefaults, exemptions |-> <<"lexer/parse">>],
     [defaults |-> [f \in {WARN, REGRESSION} |-> Num(FieldBase(f))],
      critical_path |-> <<[name |-> "parser/tokenize", warn_threshold_pct |-> Num(5)]>>]}

\* The metadata of a snapshot: under "metadata", on the top level, on both,
\* nowhere, null on the top level, null under "metadata" with a top-level
\* value, and a null "metadata"
MainMetadata ==
    {[metadata |-> [version |-> Str("1.0"), git_sha |-> Str("abcdef0123"),
                    date |-> Str("2026-01-02")]],
     [version |-> Str("0.9"), git_sha |-> Str("0123456789ab"),
      timestamp |-> Str("2026-01-01")],
     [metadata |-> [version |-> Str("1.0"), git_sha |-> Str("abcdef0123")],
      version |-> Str("0.9"), git_sha |-> Str("0123456789ab")],
     EmptyDict,
     [version |-> None, git_sha |-> None],
     [metadata |-> [git_sha |-> None], git_sha |-> Str("0123456789ab")],
     [metadata |-> None]}

\* The measurements of the baseline the runs mostly use
MainResults ==
    [lexer |-> [parse |-> MeanNs(1000)],
     parser |-> [parse |-> MeanNs(1000), tokenize |-> Nested(1000)]]

\* What the baseline file holds: nothing (no file), no JSON, a list, the
\* measurements with each metadata, a mean of 0, and a Variant B document
MainBaselines ==
    {Absent, Raise("JSONDecodeError"), List(<<>>),
     [results |-> [parser |-> [parse |-> MeanNs(0)]]],
     [benchmarks |-> MainResults]}
    \cup {Update([results |-> MainResults], m) : m \in MainMetadata}

\* What the current file holds: nothing, no JSON, slower and faster and
\* equal measurements, entries without a mean and absent entries, a
\* document of neither variant, a "results" that is no object, null metadata
MainCurrents ==
    {Absent, Raise("JSONDecodeError"), EmptyDict, [version |-> Str("1")],
     [results |-> None],
     [results |-> MainResults],
     [results |-> [lexer |-> [parse |-> MeanNs(1600)],
                   parser |-> [parse |-> MeanNs(1300), tokenize |-> MeanNs(1080)]]],
     [results |-> [parser |-> [parse |-> NoMean]]],
     [results |-> [parser |-> [parse |-> MeanNs(850)]], git_sha |-> None],
     [results |-> [parser |-> [parse |-> MeanNs(850)]], metadata |-> None]}

\* A file system with the file at `path` when there is one
File(path, content) == IF content = Absent THEN EmptyDict ELSE [p \in {path} |-> content]

\* The baselines directory: absent, empty, with one snapshot, and with
\* snapshots, a file of another kind and a snapshot in a subdirectory
Listings(content) ==
    LET dir == [p \in {BaselinesDir} |-> [dir |-> TRUE]]
        older == [p \in {BaselinesDir \o "/v1.json"} |->
                     [results |-> [parser |-> [parse |-> MeanNs(900)]]]]
    IN  {EmptyDict, dir} \cup
        (IF content = Absent THEN {}
         ELSE {Update(dir, File(BaselinesDir \o "/v2.json", content)),
               Update(Update(dir, older),
                      Update(File(BaselinesDir \o "/v2.json", content),
                             [p \in {BaselinesDir \o "/zz.txt",
                                     BaselinesDir \o "/old/v9.json"} |-> Str("")]))})

\* The file systems of the runs
FileSystems ==
    UNION {{Update(Update(Update(listing, File("base.json", b)),
                          Update(File(LatestPath, c), File("cur.json", d))),
                   File(ConfigPath, policy)) :
               c \in MainCurrents, d \in {Absent, [results |-> MainResults]},
               policy \in MainPolicies, listing \in Listings(b)} :
           b \in MainBaselines}

\* The state in which main starts, but for pc, args and the file system
MainStart ==
    /\ config = EmptyDict
    /\ category = ""
    /\ bench_name = ""
    /\ pct_change = NoCall.pct_change
    /\ thresholds = EmptyDict
    /\ status = "none"
    /\ first = NoCall
    /\ exempted = FALSE
    /\ baseline_benchmarks = None
    /\ current_benchmarks = None
    /\ todo_categories = <<>>
    /\ todo_names = <<>>
    /\ summary = EmptyDict
    /\ category_alerts = <<>>
    /\ has_alerts = FALSE
    /\ counters = EmptyDict
    /\ stdout = <<>>
    /\ exit_code = None
    /\ raised = ""
    /\ REGRESSION_THRESHOLD = 20
    /\ sys_exit = None
    /\ data = EmptyDict
    /\ results = EmptyDict
    /\ now = 0
    /\ bench = EmptyDict
    /\ ns = None
    /\ baseline_file = None
    /\ current_file = None
    /\ stderr = <<>>
    /\ header = EmptyDict
    /\ NoComparison

\* The positional arguments: each path is given or not
MainArgs ==
    {[baseline |-> b, current |-> c] : b \in {None, Str("base.json")},
                                        c \in {None, Str("cur.json")}}

InitCompareMain ==
    /\ pc = "compare_main"
    /\ args \in MainArgs
    /\ files \in {fs \in FileSystems : ConfigPath \notin DOMAIN fs}
    /\ MainStart

InitAlertMain ==
    /\ pc = "alert_main"
    /\ args \in MainArgs
    /\ files \in FileSystems
    /\ MainStart

\* What a step of main before the comparison leaves alone
MainFrame ==
    /\ UNCHANGED <<category, bench_name, pct_change, thresholds, status, first, exempted>>
    /\ UNCHANGED <<baseline_benchmarks, current_benchmarks, todo_categories, todo_names,
                   summary, category_alerts, has_alerts, counters, stdout, exit_code,
                   REGRESSION_THRESHOLD, args>>
    /\ UNCHANGED <<data, results, now, bench, ns, files, header, comparisonVars>>

\* sys.exit(1) after the error message
MainError(message) ==
    /\ stderr' = stderr \o <<message>>
    /\ sys_exit' = Num(1)
    /\ pc' = "exited"
    /\ UNCHANGED <<config, baseline_file, current_file, raised>>
    /\ MainFrame

\* compare.py lines 246-247: the two paths
CompareMainPaths ==
    /\ pc = "compare_main"
    /\ baseline_file' = IF Truthy(args["baseline"]) THEN Path(args["baseline"].str)
                        ELSE find_latest_baseline(files)
    /\ current_file' = IF Truthy(args["current"]) THEN Path(args["current"].str)
                       ELSE Path(LatestPath)
    /\ pc' = "compare_paths"
    /\ UNCHANGED <<config, raised, sys_exit, stderr>>
    /\ MainFrame

\* compare.py lines 249-252
CompareMainNoBaseline ==
    /\ pc = "compare_paths"
    /\ baseline_file = None
    /\ MainError("Error: No baseline file found")

\* compare.py lines 254-256
CompareMainBaselineNotFound ==
    /\ pc = "compare_paths"
    /\ baseline_file # None
    /\ ~Exists(baseline_file)
    /\ MainError("Error: Baseline file not found")

\* compare.py lines 258-261
CompareMainCurrentNotFound ==
    /\ pc = "compare_paths"
    /\ baseline_file # None
    /\ Exists(baseline_file)
    /\ ~Exists(current_file)
    /\ MainError("Error: Current results file not found")

\* compare.py line 263: compare_benchmarks is called
CompareMainCall ==
    /\ pc = "compare_paths"
    /\ baseline_file # None
    /\ Exists(baseline_file)
    /\ Exists(current_file)
    /\ pc' = "compare_benchmarks"
    /\ UNCHANGED <<config, baseline_file, current_file, raised, sys_exit, stderr>>
    /\ MainFrame

\* alert.py lines 429-431: the policy file does not exist
AlertMainNoConfig ==
    /\ pc = "alert_main"
    /\ ~Exists(Path(ConfigPath))
    /\ MainError("Error: Config file not found")

\* alert.py line 433, lines 29-32: the policy file is parsed
AlertMainConfig ==
    /\ pc = "alert_main"
    /\ Exists(Path(ConfigPath))
    /\ "raise" \notin DOMAIN files[ConfigPath]
    /\ config' = files[ConfigPath]
    /\ pc' = "alert_baseline"
    /\ UNCHANGED <<baseline_file, current_file, raised, sys_exit, stderr>>
    /\ MainFrame

\* alert.py line 433: yaml.safe_load raises, and nothing catches it
AlertMainConfigError ==
    /\ pc = "alert_main"
    /\ Exists(Path(ConfigPath))
    /\ "raise" \in DOMAIN files[ConfigPath]
    /\ raised' = files[ConfigPath].raise
    /\ pc' = "raised"
    /\ UNCHANGED <<config, baseline_file, current_file, sys_exit, stderr>>
    /\ MainFrame

\* alert.py lines 436-441: the baseline given, or the last of the sorted
\* *.json files of the baselines directory
AlertMainBaseline ==
    /\ pc = "alert_baseline"
    /\ baseline_file' =
          IF Truthy(args["baseline"]) THEN Path(args["baseline"].str)
          ELSE LET baseline_files == Reversed(sorted(Glob(files, BaselinesDir)))
               IN  IF baseline_files # <<>> THEN Path(baseline_files[1]) ELSE None
    /\ pc' = "alert_baseline_check"
    /\ UNCHANGED <<config, current_file, raised, sys_exit, stderr>>
    /\ MainFrame

\* alert.py lines 443-446
AlertMainNoBaseline ==
    /\ pc = "alert_baseline_check"
    /\ IF baseline_file = None THEN TRUE ELSE ~Exists(baseline_file)
    /\ MainError("Error: No baseline file found")

\* alert.py line 449
AlertMainCurrent ==
    /\ pc = "alert_baseline_check"
    /\ baseline_file # None
    /\ Exists(baseline_file)
    /\ current_file' = IF Truthy(args["current"]) THEN Path(args["current"].str)
                       ELSE Path(LatestPath)
    /\ pc' = "alert_current_check"
    /\ UNCHANGED <<config, baseline_file, raised, sys_exit, stderr>>
    /\ MainFrame

\* alert.py lines 451-454
AlertMainNoCurrent ==
    /\ pc = "alert_current_check"
    /\ ~Exists(current_file)
    /\ MainError("Error: Current results file not found")

\* alert.py lines 457-462: the renderer is called
AlertMainCall ==
    /\ pc = "alert_current_check"
    /\ Exists(current_file)
    /\ pc' = "generate_alert"
    /\ UNCHANGED <<config, baseline_file, current_file, raised, sys_exit, stderr>>
    /\ MainFrame

\* An exception that nothing catches ends the process: the interpreter
\* writes the traceback to standard error and exits with status 1
Traceback ==
    /\ pc = "raised"
    /\ stderr' = stderr \o <<"Traceback (most recent call last):">>
    /\ sys_exit' = Num(1)
    /\ pc' = "exited"
    /\ UNCHANGED <<config, baseline_file, current_file, raised>>
    /\ MainFrame

NextSelect ==
    \/ CompareMainPaths
    \/ CompareMainNoBaseline
    \/ CompareMainBaselineNotFound
    \/ CompareMainCurrentNotFound
    \/ CompareMainCall
    \/ AlertMainNoConfig
    \/ AlertMainConfig
    \/ AlertMainConfigError
    \/ AlertMainBaseline
    \/ AlertMainNoBaseline
    \/ AlertMainCurrent
    \/ AlertMainNoCurrent
    \/ AlertMainCall
    \/ Traceback

InitSelect == InitCompareMain \/ InitAlertMain

SpecSelect == InitSelect /\ [][NextSelect]_vars

\* The names of the *.json files of the baselines directory
BaselineNames ==
    {SubSeq(f, Len(BaselinesDir) + 2, Len(f)) : f \in Glob(files, BaselinesDir)}

\* main is past the choice of the baseline, and of the current file
BaselineChosen ==
    pc \in {"compare_paths", "compare_benchmarks", "alert_baseline_check",
            "alert_current_check", "generate_alert"}
    \/ (pc = "exited" /\ raised = "" /\ stderr # <<"Error: Config file not found">>)
CurrentChosen ==
    pc \in {"compare_paths", "compare_benchmarks", "alert_current_check", "generate_alert"}

\* C21: with no baseline argument, the baseline chosen is the file of the
\* baselines directory named *.json whose name is greatest in lexicographic
\* order; when there is no such file or no such directory, the run ends
\* with status 1 and the error "No baseline file found", and no comparison
\* is called and nothing is printed.  With no current argument, the current
\* file is benchmarks/results/latest.json.
C21_LatestBaseline ==
    /\ (BaselineChosen /\ args["baseline"] = None) =>
          IF BaselineNames = {}
          THEN /\ baseline_file = None
               /\ pc \notin {"compare_benchmarks", "alert_current_check", "generate_alert"}
               /\ pc = "exited" => /\ sys_exit = Num(1)
                                   /\ stderr = <<"Error: No baseline file found">>
                                   /\ stdout = <<>>
          ELSE \E name \in BaselineNames :
                  /\ baseline_file = Path(BaselinesDir \o "/" \o name)
                  /\ \A other \in BaselineNames \ {name} : StrLess(other, name)
    /\ (CurrentChosen /\ args["current"] = None) => current_file = Path(LatestPath)
    /\ (BaselineNames = {} /\ args["baseline"] = None) =>
          pc \notin {"compare_benchmarks", "alert_current_check", "generate_alert"}

\* The directory holds v1.json, v2.json, a file of another kind and a
\* subdirectory; no path was given, v2.json is the baseline and the
\* comparison is called with latest.json
C21_Witness ==
    /\ pc \in {"compare_benchmarks", "generate_alert"}
    /\ args["baseline"] = None
    /\ args["current"] = None
    /\ Cardinality(BaselineNames) = 2
    /\ BaselinesDir \o "/zz.txt" \in DOMAIN files
    /\ baseline_file = Path(BaselinesDir \o "/v2.json")
    /\ current_file = Path(LatestPath)

----------------------------------------------------------------------------
(* alert.py: a whole run of main with the terminal renderer.  After the     *)
(* paths (above), generate_alert_terminal loads the two snapshots, reads    *)
(* their metadata, extracts them, prints the header and compares            *)

\* d.get("metadata", {}).get(key) or d.get(key, "unknown") (lines 157-159):
\* .get of a list or of None raises AttributeError
Metadata(d, key) ==
    IF ~IsDict(d) THEN Raise("AttributeError")
    ELSE LET metadata == Get(d, "metadata", EmptyDict)
         IN  IF ~IsDict(metadata) THEN Raise("AttributeError")
             ELSE IF Truthy(Get(metadata, key, None)) THEN metadata[key]
             ELSE Get(d, key, Str("unknown"))

\* v[:8] (lines 176-177): the first eight characters of a str; a value
\* that is not a sequence cannot be sliced
Slice8(v) ==
    IF "str" \in DOMAIN v
    THEN Str(SubSeq(v.str, 1, IF Len(v.str) < 8 THEN Len(v.str) ELSE 8))
    ELSE IF "list" \in DOMAIN v
    THEN List(SubSeq(v.list, 1, IF Len(v.list) < 8 THEN Len(v.list) ELSE 8))
    ELSE Raise("TypeError")

\* The exception of the first value of the list that is one, "" if none
RECURSIVE FirstRaise(_)
FirstRaise(vs) ==
    IF vs = <<>> THEN ""
    ELSE IF "raise" \in DOMAIN Head(vs) THEN Head(vs).raise
    ELSE FirstRaise(Tail(vs))

\* lines 154-155, 35-38: the two snapshots are parsed, the baseline first
Loaded == <<files[baseline_file.path], files[current_file.path]>>

\* What a step of generate_alert_terminal before its loop leaves alone
AlertMainFrame ==
    /\ UNCHANGED <<config, category, bench_name, pct_change, thresholds, status, first,
                   exempted>>
    /\ UNCHANGED <<todo_names, category_alerts, counters, exit_code,
                   REGRESSION_THRESHOLD, args>>
    /\ UNCHANGED <<sys_exit, now, bench, ns, files, baseline_file, current_file, stderr,
                   comparisonVars>>

\* lines 154-155: json.load raises on a file that is not JSON
AlertMainJsonError ==
    /\ pc = "generate_alert"
    /\ FirstRaise(Loaded) # ""
    /\ raised' = FirstRaise(Loaded)
    /\ pc' = "raised"
    /\ UNCHANGED <<baseline_benchmarks, current_benchmarks, todo_categories, summary,
                   has_alerts, stdout, data, results, header>>
    /\ AlertMainFrame

\* lines 157-159: .get raises for a document or a "metadata" that is no
\* object
AlertMainMetadataError ==
    /\ pc = "generate_alert"
    /\ FirstRaise(Loaded) = ""
    /\ LET values == <<Metadata(Loaded[1], "version"), Metadata(Loaded[1], "git_sha"),
                       Metadata(Loaded[2], "git_sha")>>
       IN  /\ FirstRaise(values) # ""
           /\ raised' = FirstRaise(values)
    /\ pc' = "raised"
    /\ UNCHANGED <<baseline_benchmarks, current_benchmarks, todo_categories, summary,
                   has_alerts, stdout, data, results, header>>
    /\ AlertMainFrame

\* lines 154-161: the metadata is read and extract_benchmarks is called
\* with the baseline
AlertMainMetadata ==
    /\ pc = "generate_alert"
    /\ FirstRaise(Loaded) = ""
    /\ LET values == <<Metadata(Loaded[1], "version"), Metadata(Loaded[1], "git_sha"),
                       Metadata(Loaded[2], "git_sha")>>
       IN  /\ FirstRaise(values) = ""
           /\ header' = [baseline_version |-> values[1], baseline_sha |-> values[2],
                         current_sha |-> values[3]]
    /\ data' = Loaded[1]
    /\ results' = EmptyDict
    /\ pc' = "extract_benchmarks"
    /\ UNCHANGED <<baseline_benchmarks, current_benchmarks, todo_categories, summary,
                   has_alerts, stdout, raised>>
    /\ AlertMainFrame

\* lines 161-162: the baseline is extracted; extract_benchmarks is called
\* with the current snapshot
AlertMainExtracted ==
    /\ pc = "extracted"
    /\ baseline_benchmarks = None
    /\ baseline_benchmarks' = results
    /\ data' = Loaded[2]
    /\ results' = EmptyDict
    /\ todo_categories' = <<>>
    /\ pc' = "extract_benchmarks"
    /\ UNCHANGED <<current_benchmarks, summary, has_alerts, stdout, raised, header>>
    /\ AlertMainFrame

\* lines 162-182: both are extracted; the tier lists are empty and the
\* header is printed with the version and the first eight characters of
\* the two commits
AlertMainHeader ==
    /\ pc = "extracted"
    /\ baseline_benchmarks # None
    /\ FirstRaise(<<Slice8(header["baseline_sha"]), Slice8(header["current_sha"])>>) = ""
    /\ current_benchmarks' = results
    /\ summary' = [critical |-> <<>>, regressions |-> <<>>, warnings |-> <<>>,
                   improvements |-> <<>>, unchanged |-> 0]
    /\ stdout' = <<Line("header", "", "", ""),
                   [kind |-> "baseline", version |-> header["baseline_version"],
                    sha |-> Slice8(header["baseline_sha"])],
                   [kind |-> "current", sha |-> Slice8(header["current_sha"])]>>
    /\ has_alerts' = FALSE
    /\ todo_categories' = sorted(DOMAIN baseline_benchmarks \cup DOMAIN results)
    /\ pc' = "for_category"
    /\ UNCHANGED <<baseline_benchmarks, data, results, raised, header>>
    /\ AlertMainFrame

\* lines 172-177: a commit that cannot be sliced raises TypeError after the
\* first lines of the header are printed
AlertMainHeaderError ==
    /\ pc = "extracted"
    /\ baseline_benchmarks # None
    /\ FirstRaise(<<Slice8(header["baseline_sha"]), Slice8(header["current_sha"])>>) # ""
    /\ current_benchmarks' = results
    /\ summary' = [critical |-> <<>>, regressions |-> <<>>, warnings |-> <<>>,
                   improvements |-> <<>>, unchanged |-> 0]
    /\ stdout' = <<Line("header", "", "", "")>> \o
                 (IF "raise" \in DOMAIN Slice8(header["baseline_sha"]) THEN <<>>
                  ELSE <<[kind |-> "baseline", version |-> header["baseline_version"],
                          sha |-> Slice8(header["baseline_sha"])]>>)
    /\ raised' = "TypeError"
    /\ pc' = "raised"
    /\ UNCHANGED <<baseline_benchmarks, todo_categories, has_alerts, data, results, header>>
    /\ AlertMainFrame

NextAlertMain ==
    \/ AlertMainNoConfig
    \/ AlertMainConfig
    \/ AlertMainConfigError
    \/ AlertMainBaseline
    \/ AlertMainNoBaseline
    \/ AlertMainCurrent
    \/ AlertMainNoCurrent
    \/ AlertMainCall
    \/ AlertMainJsonError
    \/ AlertMainMetadataError
    \/ AlertMainMetadata
    \/ ExtractRaise
    \/ ExtractResults
    \/ ExtractBenchmarks
    \/ ExtractNeither
    \/ ExtractCategory
    \/ ExtractGenuine
    \/ ExtractReturn
    \/ AlertMainExtracted
    \/ AlertMainHeader
    \/ AlertMainHeaderError
    \/ AlertSkipCategory
    \/ AlertEnterCategory
    \/ AlertExempted
    \/ AlertNoBench
    \/ AlertNoMean
    \/ AlertZeroDivision
    \/ AlertTypeError
    \/ AlertAppend
    \/ AlertUnchanged
    \/ AlertEndCategory
    \/ AlertSummary
    \/ AlertExit
    \/ Traceback

SpecAlertMain == InitAlertMain /\ [][NextAlertMain]_vars

\* The file cannot be used: no path, no file at the path, or a file that
\* does not parse
Unreadable(p) ==
    \/ p = None
    \/ p.path \notin DOMAIN files
    \/ "raise" \in DOMAIN files[p.path]

\* The policy, the baseline or the current file of the run is missing or
\* does not parse (main sets baseline_file and current_file in this order
\* and only after the files before them were found)
FileError ==
    \/ Unreadable(Path(ConfigPath))
    \/ Unreadable(baseline_file)
    \/ Unreadable(current_file)

\* The kinds of the lines on standard output
Kinds == {stdout[i].kind : i \in 1..Len(stdout)}

\* C22 as stated: a run in which the policy, the baseline or the current
\* file is missing or cannot be parsed ends with exit code 1, with no
\* comparison step taken and nothing written to standard output; every other
\* run ends with a full report on standard output, header and summary
\* included.
C22_AsStated ==
    pc = "exited" =>
        IF FileError
        THEN /\ sys_exit = Num(1)
             /\ stdout = <<>>
             /\ baseline_benchmarks = None
        ELSE /\ raised = ""
             /\ {"header", "summary", "final"} \subseteq Kinds

\* C23 as stated: when the current document matches neither schema variant
\* and the run returns, the current ResultSet is empty, the run did not
\* fail, every baseline benchmark has a MISSING line, the missing counter is
\* the number of baseline benchmarks and no benchmark is classified.
C23_AsStated ==
    (pc = "returned" /\ Branch(Loaded[2]) = "neither") =>
        /\ current_benchmarks = EmptyDict
        /\ raised = ""
        /\ \A p \in Pairs(baseline_benchmarks) :
              \E i \in 1..Len(stdout) :
                  /\ stdout[i].kind = "bench"
                  /\ stdout[i].category = p[1] /\ stdout[i].name = p[2]
                  /\ stdout[i].status = "MISSING"
        /\ MissingCounter = Cardinality(Pairs(baseline_benchmarks))
        /\ \A t \in AlertTiers : summary[TierKey(t)] = <<>>
        /\ summary["unchanged"] = 0

\* The value of a metadata field as the documentation gives it: the value
\* under "metadata" when there is one, else the top-level value, else
\* "unknown"; null is no value
Documented(d, key) ==
    LET metadata == Get(d, "metadata", EmptyDict)
    IN  IF IsDict(metadata) /\ Get(metadata, key, None) # None THEN metadata[key]
        ELSE IF Get(d, key, None) # None THEN d[key]
        ELSE Str("unknown")

\* The run was ended by the reading of the metadata (lines 157-159) or by
\* the printing of it (lines 176-177)
MetadataFailed ==
    /\ pc = "raised"
    /\ current_file # None
    /\ \/ header = EmptyDict /\ data = EmptyDict
       \/ Len(stdout) \in {1, 2}

\* C24 as stated: for a baseline and a current file that are JSON objects,
\* the version and the commits of the header are the values under "metadata"
\* when present, else the top-level values, else "unknown", and neither
\* reading nor printing them ends the run.
C24_AsStated ==
    (~FileError /\ IsDict(Loaded[1]) /\ IsDict(Loaded[2])) =>
        /\ ~MetadataFailed
        /\ header # EmptyDict =>
              /\ header["baseline_version"] = Documented(Loaded[1], "version")
              /\ header["baseline_sha"] = Documented(Loaded[1], "git_sha")
              /\ header["current_sha"] = Documented(Loaded[2], "git_sha")

\* C28 as stated: when a comparison returns, the counters add up to the
\* benchmarks visited.  In comparison mode regressions + improvements +
\* unchanged + missing is the number of baseline benchmarks with an
\* extractable mean; in alert mode the lengths of the four tier lists +
\* unchanged + missing is the number of non-exempt baseline benchmarks of
\* the categories of both sets.
C28_AsStated ==
    pc = "returned" =>
        IF counters # EmptyDict
        THEN counters["regressions"] + counters["improvements"] + counters["unchanged"] +
             counters["missing"] =
                 Cardinality({p \in Pairs(baseline_benchmarks) :
                                 extract_mean_ns(baseline_benchmarks[p[1]][p[2]]) # None})
        ELSE Len(summary["critical"]) + Len(summary["regressions"]) +
             Len(summary["warnings"]) + Len(summary["improvements"]) +
             summary["unchanged"] + MissingCounter =
                 Cardinality({p \in Pairs(baseline_benchmarks) :
                                 /\ p[1] \in DOMAIN current_benchmarks
                                 /\ ~ExemptByPattern(p)})

----------------------------------------------------------------------------
(* Python floats: IEEE 754 binary64, round to nearest, ties to even.  A     *)
(* float is [sign, m, e] with the value sign * m * 2^e, where m is 0 or a   *)
(* 53-bit natural number kept in two limbs <<high, low>> of 27 bits         *)

Limb == 2^27

\* 2 * x + bit, x \div 2, x + 1, x < y and x - y (for x >= y) on two limbs
Shl1(x, bit) == <<2 * x[1] + (2 * x[2] + bit) \div Limb, (2 * x[2] + bit) % Limb>>
Shr1(x) == <<x[1] \div 2, (x[1] % 2) * (Limb \div 2) + x[2] \div 2>>
Succ(x) == IF x[2] + 1 = Limb THEN <<x[1] + 1, 0>> ELSE <<x[1], x[2] + 1>>
Less(x, y) == x[1] < y[1] \/ (x[1] = y[1] /\ x[2] < y[2])
Minus(x, y) ==
    IF x[2] >= y[2] THEN <<x[1] - y[1], x[2] - y[2]>>
    ELSE <<x[1] - y[1] - 1, x[2] + Limb - y[2]>>
Odd(x) == x[2] % 2 = 1

Zero == [sign |-> 1, m |-> <<0, 0>>, e |-> 0]

\* The float nearest to q * 2^e (+ a fraction of 2^e when `sticky`), ties to
\* even; a q with sticky has 54 bits or more
RECURSIVE Rounded(_, _, _)
Rounded(q, e, sticky) ==
    IF q = <<0, 0>> THEN Zero
    ELSE IF q[1] < 2^25 THEN Rounded(Shl1(q, 0), e - 1, sticky)
    ELSE IF q[1] >= 2^27 THEN Rounded(Shr1(q), e + 1, sticky \/ Odd(q))
    ELSE IF q[1] < 2^26 THEN [sign |-> 1, m |-> q, e |-> e]
    ELSE LET m == Shr1(q)
             up == Odd(q) /\ (sticky \/ Odd(m))
         IN  IF up /\ Succ(m) = <<2^26, 0>> THEN [sign |-> 1, m |-> <<2^25, 0>>, e |-> e + 2]
             ELSE [sign |-> 1, m |-> IF up THEN Succ(m) ELSE m, e |-> e + 1]

\* float(n) of an int 0 <= n < 2^31
Float64(n) == Rounded(<<n \div Limb, n % Limb>>, 0, FALSE)

\* -x
Neg(x) == IF x.m = <<0, 0>> THEN x ELSE [x EXCEPT !.sign = 0 - x.sign]

\* |x| < |y|
MagLess(x, y) ==
    IF y.m = <<0, 0>> THEN FALSE
    ELSE IF x.m = <<0, 0>> THEN TRUE
    ELSE x.e < y.e \/ (x.e = y.e /\ Less(x.m, y.m))

\* x < y
FloatLess(x, y) ==
    IF x.sign # y.sign THEN x.sign < y.sign
    ELSE IF x.sign = 1 THEN MagLess(x, y)
    ELSE MagLess(y, x)

\* Long division by d, one bit of the quotient a step, until the quotient
\* has 54 bits: <<quotient, remainder>>
RECURSIVE DivSteps(_, _, _)
DivSteps(q, rem, d) ==
    IF q[1] >= 2^26 THEN <<q, rem>>
    ELSE LET r2 == Shl1(rem, 0)
         IN  IF Less(r2, d) THEN DivSteps(Shl1(q, 0), r2, d)
             ELSE DivSteps(Shl1(q, 1), Minus(r2, d), d)

\* x / y for y # 0: the quotient of the mantissas to 54 bits (53 or 54 steps
\* after the first bit), rounded
FloatDiv(x, y) ==
    IF x.m = <<0, 0>> THEN Zero
    ELSE LET ge == ~Less(x.m, y.m)
             qr == DivSteps(IF ge THEN <<0, 1>> ELSE <<0, 0>>,
                            IF ge THEN Minus(x.m, y.m) ELSE x.m, y.m)
             r == Rounded(qr[1], x.e - y.e - (IF ge THEN 53 ELSE 54), qr[2] # <<0, 0>>)
         IN  [r EXCEPT !.sign = x.sign * y.sign]

\* x \div 2^n, and whether a 1 was shifted out
RECURSIVE ShrSticky(_, _, _)
ShrSticky(x, n, sticky) ==
    IF n = 0 \/ x = <<0, 0>> THEN <<x, sticky>>
    ELSE ShrSticky(Shr1(x), n - 1, sticky \/ Odd(x))

\* |x| - |y| for |x| >= |y| > 0: the mantissas are aligned with three more
\* bits, the bits of y shifted out count as a fraction
MagMinus(x, y) ==
    LET X == Shl1(Shl1(Shl1(x.m, 0), 0), 0)
        Y == ShrSticky(Shl1(Shl1(Shl1(y.m, 0), 0), 0), x.e - y.e, FALSE)
        D == IF Y[2] THEN Minus(Minus(X, Y[1]), <<0, 1>>) ELSE Minus(X, Y[1])
    IN  Rounded(D, x.e - 3, Y[2])

\* x - y for x >= 0 and y >= 0
FloatSub(x, y) ==
    IF y.m = <<0, 0>> THEN x
    ELSE IF x.m = <<0, 0>> THEN Neg(y)
    ELSE IF MagLess(x, y) THEN Neg(MagMinus(y, x))
    ELSE MagMinus(x, y)

----------------------------------------------------------------------------
(* generate_comparison.py: BenchmarkComparison.compare_implementations     *)

\* s.lower()
RECURSIVE lower(_)
lower(s) ==
    IF s = "" THEN ""
    ELSE LET c == SubSeq(s, 1, 1)
             at == {i \in 1..Len(Upper) : SubSeq(Upper, i, i) = c}
         IN  (IF at = {} THEN c ELSE LET i == CHOOSE j \in at : TRUE
                                     IN  SubSeq(Lower, i, i)) \o lower(SubSeq(s, 2, Len(s)))

\* lines 177-178: result.get('mean_duration_ns', 0) / 1_000_000
DurationMs(result) ==
    FloatDiv(Float64(Val(Get(result, "mean_duration_ns", Num(0)))), Float64(1000000))

\* lines 181-186
TimeDifference(c_time, rust_time) ==
    IF FloatLess(Zero, c_time) THEN FloatDiv(FloatSub(rust_time, c_time), c_time)
    ELSE Zero

\* lines 190-201: the status of a test, from the thresholds of the
\* configuration divided by 100.0
TestStatus(cfg, time_diff) ==
    LET regression_threshold ==
            FloatDiv(Float64(cfg["parse_time_regression_threshold"]), Float64(100))
        improvement_threshold ==
            FloatDiv(Float64(cfg["parse_time_improvement_threshold"]), Float64(100))
    IN  IF FloatLess(regression_threshold, time_diff) THEN "regression"
        ELSE IF FloatLess(time_diff, Neg(improvement_threshold)) THEN "improvement"
        ELSE "within_tolerance"

\* lines 190-201: the counter of a status
StatusCounter(st) ==
    CASE st = "regression" -> "tests_with_regression"
      [] st = "improvement" -> "tests_with_improvement"
      [] st = "within_tolerance" -> "tests_within_tolerance"

\* lines 226-235: the category list a test is added to, "" for none
TestCategory(test_name) ==
    IF Contains(lower(test_name), "small") THEN "small_files"
    ELSE IF Contains(lower(test_name), "medium") THEN "medium_files"
    ELSE IF Contains(lower(test_name), "large") THEN "large_files"
    ELSE IF Contains(lower(test_name), "error") \/ Contains(lower(test_name), "recovery")
    THEN "error_recovery"
    ELSE IF Contains(lower(test_name), "memory") THEN "memory_usage"
    ELSE ""

\* lines 165-166
c_tests == Get(c_data, "tests", EmptyDict)
rust_tests == Get(rust_data, "tests", EmptyDict)

\* lines 203-221: the entry of a test; of its fields the name, the two
\* durations, the difference and the status are kept
TestComparison(test_name) ==
    LET c_time == DurationMs(c_tests[test_name])
        rust_time == DurationMs(rust_tests[test_name])
        time_diff == TimeDifference(c_time, rust_time)
    IN  [name |-> test_name, c_duration_ms |-> c_time, rust_duration_ms |-> rust_time,
         time_difference |-> time_diff, status |-> TestStatus(config, time_diff)]

\* The names of the tests and the results of a test: none, no duration,
\* and durations in ns
TestNames == {"simple_test", "Parse_Small"}
CResults ==
    {EmptyDict, [iterations |-> Num(100)]} \cup
    {[mean_duration_ns |-> Num(n)] : n \in {500000, 1000000}}
RustResults ==
    {EmptyDict} \cup
    {[mean_duration_ns |-> Num(n), iterations |-> Num(100)] :
        n \in {0, 475000, 525000, 800000}}

\* A results file: no "tests", or results for some of the tests
ResultFiles(entries) ==
    {EmptyDict} \cup
    {[tests |-> t] : t \in UNION {[names -> entries] : names \in SUBSET TestNames}}

\* The thresholds of the configuration, in percent (5.0 by default)
ComparisonConfigs ==
    {[parse_time_regression_threshold |-> t[1], parse_time_improvement_threshold |-> t[2]] :
        t \in {<<5, 5>>, <<25, 25>>, <<20, 10>>}}

InitComparison ==
    /\ pc = "compare_implementations"
    /\ config \in ComparisonConfigs
    /\ c_data \in ResultFiles(CResults)
    /\ rust_data \in ResultFiles(RustResults)
    /\ comparison = EmptyDict
    /\ all_test_names = {}
    /\ category = ""
    /\ bench_name = ""
    /\ pct_change = NoCall.pct_change
    /\ thresholds = EmptyDict
    /\ status = "none"
    /\ first = NoCall
    /\ exempted = FALSE
    /\ baseline_benchmarks = EmptyDict
    /\ current_benchmarks = EmptyDict
    /\ todo_categories = <<>>
    /\ todo_names = <<>>
    /\ summary = EmptyDict
    /\ category_alerts = <<>>
    /\ has_alerts = FALSE
    /\ counters = EmptyDict
    /\ stdout = <<>>
    /\ exit_code = None
    /\ raised = ""
    /\ REGRESSION_THRESHOLD = 20
    /\ args = EmptyDict
    /\ sys_exit = None
    /\ data = EmptyDict
    /\ results = EmptyDict
    /\ now = 0
    /\ bench = EmptyDict
    /\ ns = None
    /\ files = EmptyDict
    /\ baseline_file = None
    /\ current_file = None
    /\ stderr = <<>>
    /\ header = EmptyDict

\* What a step of compare_implementations leaves alone
ComparisonFrame ==
    /\ UNCHANGED <<callVars, runVars, sys_exit>>
    /\ UNCHANGED <<data, results, now, bench, ns>>
    /\ UNCHANGED <<files, baseline_file, current_file, stderr, header, c_data, rust_data>>

\* lines 142-169: the comparison starts empty; the names of both results
\* are to be visited
ComparisonBegin ==
    /\ pc = "compare_implementations"
    /\ comparison' =
          [metadata |-> [total_tests |-> 0, tests_with_regression |-> 0,
                         tests_with_improvement |-> 0, tests_within_tolerance |-> 0],
           summary |-> EmptyDict,
           tests |-> <<>>,
           categories |-> [k \in {"small_files", "medium_files", "large_files",
                                  "error_recovery", "memory_usage"} |-> <<>>]]
    /\ all_test_names' = DOMAIN c_tests \cup DOMAIN rust_tests
    /\ pc' = "for_test_name"
    /\ ComparisonFrame

\* lines 170-175: a test without results, or with empty results, on a side
\* is passed over; a set is iterated in no particular order
ComparisonSkip ==
    /\ pc = "for_test_name"
    /\ \E test_name \in all_test_names :
          /\ \/ ~Truthy(Get(c_tests, test_name, EmptyDict))
             \/ ~Truthy(Get(rust_tests, test_name, EmptyDict))
          /\ all_test_names' = all_test_names \ {test_name}
    /\ UNCHANGED <<pc, comparison>>
    /\ ComparisonFrame

\* lines 170-235: the test is compared, counted and added to the tests and
\* to the list of its category
ComparisonTest ==
    /\ pc = "for_test_name"
    /\ \E test_name \in all_test_names :
          /\ Truthy(Get(c_tests, test_name, EmptyDict))
          /\ Truthy(Get(rust_tests, test_name, EmptyDict))
          /\ LET test_comparison == TestComparison(test_name)
                 counter == StatusCounter(test_comparison.status)
                 counted == [comparison["metadata"] EXCEPT
                                ![counter] = @ + 1, !["total_tests"] = @ + 1]
                 listed == IF TestCategory(test_name) = "" THEN comparison["categories"]
                           ELSE [comparison["categories"] EXCEPT
                                    ![TestCategory(test_name)] = Append(@, test_comparison)]
             IN  comparison' = [comparison EXCEPT
                                   !["metadata"] = counted,
                                   !["tests"] = Append(@, test_comparison),
                                   !["categories"] = listed]
          /\ all_test_names' = all_test_names \ {test_name}
    /\ UNCHANGED pc
    /\ ComparisonFrame

\* lines 237-240, 243-246, 274-279: the summary is empty without tests; of
\* its statistics the test coverage is kept
ComparisonSummary ==
    /\ pc = "for_test_name"
    /\ all_test_names = {}
    /\ comparison' =
          [comparison EXCEPT
              !["summary"] = IF comparison["tests"] = <<>> THEN EmptyDict
                             ELSE [test_coverage |-> comparison["metadata"]]]
    /\ pc' = "compared"
    /\ UNCHANGED all_test_names
    /\ ComparisonFrame

NextComparison ==
    \/ ComparisonBegin
    \/ ComparisonSkip
    \/ ComparisonTest
    \/ ComparisonSummary

SpecComparison == InitComparison /\ [][NextComparison]_vars

\* The tests with non-empty results on both sides
Common ==
    {t \in DOMAIN c_tests \cap DOMAIN rust_tests :
        c_tests[t] # EmptyDict /\ rust_tests[t] # EmptyDict}

\* The status of a test by the documented rule, for a C time above 0: with
\* c and rust the durations in ns, (rust - c) / c is above t percent when
\* 100 * (rust - c) > t * c
Documented25(test_name) ==
    LET c == Val(Get(c_tests[test_name], "mean_duration_ns", Num(0)))
        rust == Val(Get(rust_tests[test_name], "mean_duration_ns", Num(0)))
    IN  IF 100 * (rust - c) > config["parse_time_regression_threshold"] * c
        THEN "regression"
        ELSE IF 100 * (rust - c) < (0 - config["parse_time_improvement_threshold"]) * c
        THEN "improvement"
        ELSE "within_tolerance"

====
